---- MODULE Spec2Model ----
(***************************************************************************)
(* Verification model of the TaxAndFee cell                                *)
(* (src/platforms/cells/inventory/TaxAndFee/src/server.ts).                *)
(*                                                                         *)
(* Numbers are exact rationals [n, d] in lowest terms (JavaScript doubles  *)
(* are read as the decimal values they spell); toFixed(2) rounds half away *)
(* from zero.  Numeric columns of the store are held as the numbers their  *)
(* text spells, NULL columns as Null.  The redis cache is a map from key   *)
(* text to the stored text, the relational store a set of rows per table.  *)
(***************************************************************************)
EXTENDS Integers, Sequences, FiniteSets, TLC

VARIABLES cache, store, request, last, run, tables, uuid, answer, calls

vars == <<cache, store, request, last, run, tables, uuid, answer, calls>>

\* the state of the TaxAndFee cell and the state of the B2BAccessControl cell
taxVars == <<cache, store, request, last, run>>
b2bVars == <<tables, uuid, answer, calls>>

----------------------------------------------------------------------------
(* Numbers *)

\* a number is a record [n, d]: d > 0 for the rational n/d, d = 0 for the
\* values that are no finite number (null and Infinity)
Null == [n |-> 0, d |-> 0]
Infinity == [n |-> 1, d |-> 0]

Abs(x) == IF x < 0 THEN -x ELSE x

RECURSIVE GCD(_, _)
GCD(a, b) == IF b = 0 THEN a ELSE GCD(b, a % b)

\* the rational n/d (d > 0) in lowest terms
Rat(n, d) == LET g == GCD(Abs(n), d) IN [n |-> n \div g, d |-> d \div g]

Zero == Rat(0, 1)
One == Rat(1, 1)

IsNumber(x) == x.d > 0

\* sums, products and comparisons cancel common factors first
RAdd(a, b) ==
    LET g == GCD(a.d, b.d)
    IN  Rat(a.n * (b.d \div g) + b.n * (a.d \div g), (a.d \div g) * b.d)
RNeg(a) == [n |-> -a.n, d |-> a.d]
RSub(a, b) == RAdd(a, RNeg(b))
RMul(a, b) ==
    LET g1 == GCD(Abs(a.n), b.d)
        g2 == GCD(Abs(b.n), a.d)
    IN  Rat((a.n \div g1) * (b.n \div g2), (a.d \div g2) * (b.d \div g1))
RLt(a, b) ==
    LET g == GCD(a.d, b.d)
    IN  a.n * (b.d \div g) < b.n * (a.d \div g)
RGe(a, b) == ~RLt(a, b)
RGt(a, b) == RLt(b, a)

\* JavaScript relational operators on a number and a value read back from
\* JSON: null converts to 0, Infinity is above every number
JsLt(a, b) ==
    IF b = Infinity THEN TRUE
    ELSE IF b = Null THEN RLt(a, Zero)
    ELSE RLt(a, b)

JsGe(a, b) ==
    IF b = Infinity THEN FALSE
    ELSE IF b = Null THEN RGe(a, Zero)
    ELSE RGe(a, b)

\* parseFloat(x.toFixed(2)): the nearest multiple of 0.01, ties away from zero
ToFixed2(x) ==
    LET m == Abs(x.n)
        c == (200 * m + x.d) \div (2 * x.d)
    IN  Rat(IF x.n < 0 THEN -c ELSE c, 100)

----------------------------------------------------------------------------
(* Text *)

ToUpperCase(s) ==
    CASE s = "ng" -> "NG"
      [] s = "xx" -> "XX"
      [] OTHER -> s

ToLowerCase(s) ==
    CASE s = "Food" -> "food"
      [] s = "Medical" -> "medical"
      [] OTHER -> s

\* CACHE_KEYS
regionMultipliersKey(tenantId) == "tax_regions:" \o tenantId
feeTiersKey(tenantId) == "fee_tiers:" \o tenantId
itemAdjustmentsKey(tenantId) == "item_adjustments:" \o tenantId

----------------------------------------------------------------------------
(* The redis cache: key text -> stored text *)

\* mutant: the cached answer is never used
CachedNever(c, key) == FALSE

\* redis.get answers null for an absent key: Cached is the truthiness test of
\* the answer (every stored text is non-empty), RedisGet the text
Cached(c, key) == key \in DOMAIN c

RedisGet(c, key) == c[key]

\* mutant: the write is dropped
RedisSetexDropped(c, key, value) == c

RedisSetex(c, key, value) == (key :> value) @@ c

RedisExpire(c, key) == [k \in DOMAIN c \ {key} |-> c[k]]

\* JSON.stringify writes a non-finite number as null; JSON.parse reads the
\* text back
JsonNumber(x) == IF x = Infinity THEN Null ELSE x

----------------------------------------------------------------------------
(* The relational store: one set of rows per table *)

\* SELECT ... FROM tax_region_multipliers
\*   WHERE tenant_id = $1 AND region_code = $2 AND is_active = TRUE
RegionRows(st, tenantId, regionCode) ==
    {r \in st.tax_region_multipliers :
        r.tenant_id = tenantId /\ r.region_code = regionCode /\ r.is_active}

\* SELECT ... FROM tax_region_multipliers
\*   WHERE tenant_id = $1 AND is_default = TRUE AND is_active = TRUE
RegionDefaultRows(st, tenantId) ==
    {r \in st.tax_region_multipliers :
        r.tenant_id = tenantId /\ r.is_default /\ r.is_active}

\* rows[0] of a result: the store holds at most one active row per tenant and
\* code, and at most one active default row per tenant
FirstRow(rows) == CHOOSE r \in rows : TRUE

----------------------------------------------------------------------------
(* Outcome of a call: whether it threw, the value returned, the cache it   *)
(* leaves, the cache and store operations it issued in order, and the      *)
(* steps that failed in it                                                 *)

Outcome(threw, value, c, io, failed) ==
    [threw |-> threw, value |-> value, cache |-> c, io |-> io, failed |-> failed]

NoValue == [none |-> TRUE]

----------------------------------------------------------------------------
(* getRegionRates(region, tenantId), with F the set of steps that fail *)

\* mutant: the error fallback carries no multiplier
RegionErrorFallbackNoMultiplier ==
    [taxMultiplier |-> Null,
     description |-> "Emergency fallback rate due to database error",
     source |-> "error_fallback"]

\* mutant: the error fallback is reported as the no-configuration fallback
RegionErrorFallbackWrongSource ==
    [taxMultiplier |-> One,
     description |-> "Emergency fallback rate due to database error",
     source |-> "emergency_fallback"]

RegionErrorFallback ==
    [taxMultiplier |-> One,
     description |-> "Emergency fallback rate due to database error",
     source |-> "error_fallback"]

\* mutant: the ultimate fallback leaves the tax out
RegionEmergencyFallbackZero ==
    [taxMultiplier |-> Zero,
     description |-> "Emergency fallback rate - no database configuration found",
     source |-> "emergency_fallback"]

RegionEmergencyFallback ==
    [taxMultiplier |-> One,
     description |-> "Emergency fallback rate - no database configuration found",
     source |-> "emergency_fallback"]

regionCacheKey(region, tenantId) == regionMultipliersKey(tenantId) \o ":" \o region

\* mutant: the multiplier of the row is not read
RegionDataUnitMultiplier(row, region) ==
    [taxMultiplier |-> One,
     description |-> IF row.description # "" THEN row.description
                     ELSE "Regional tax adjustment for " \o region]

\* the data object built from an exact-match row
RegionData(row, region) ==
    [taxMultiplier |-> row.tax_multiplier,
     description |-> IF row.description # "" THEN row.description
                     ELSE "Regional tax adjustment for " \o region]

\* JSON.stringify(data) and JSON.parse of it
RegionJson(data) ==
    [taxMultiplier |-> JsonNumber(data.taxMultiplier), description |-> data.description]

getRegionRatesNoCacheHit(region, tenantId, c, st, F) ==
    LET cacheKey == regionCacheKey(region, tenantId)
        rows == RegionRows(st, tenantId, ToUpperCase(region))
        defaultRows == RegionDefaultRows(st, tenantId)
    IN  IF "region.query" \in F
        THEN Outcome(FALSE, RegionErrorFallback, c,
                     <<"redis.get", "execute_sql">>, {"region.query"})
        ELSE IF rows # {}
        THEN LET data == RegionData(FirstRow(rows), region)
             IN  IF "region.setex" \in F
                 THEN Outcome(FALSE, RegionErrorFallback, c,
                              <<"redis.get", "execute_sql", "redis.setex">>,
                              {"region.setex"})
                 ELSE Outcome(FALSE,
                              [taxMultiplier |-> data.taxMultiplier,
                               description |-> data.description,
                               source |-> "database"],
                              RedisSetex(c, cacheKey, RegionJson(data)),
                              <<"redis.get", "execute_sql", "redis.setex">>, {})
        ELSE IF "region.default" \in F
        THEN Outcome(FALSE, RegionErrorFallback, c,
                     <<"redis.get", "execute_sql", "execute_sql">>, {"region.default"})
        ELSE IF defaultRows # {}
        THEN LET row == FirstRow(defaultRows)
             IN  Outcome(FALSE,
                         [taxMultiplier |-> row.tax_multiplier,
                          description |-> IF row.description # "" THEN row.description
                                          ELSE "Default tax rate for unspecified regions",
                          source |-> "database_default"],
                         c, <<"redis.get", "execute_sql", "execute_sql">>, {})
        ELSE Outcome(FALSE, RegionEmergencyFallback, c,
                     <<"redis.get", "execute_sql", "execute_sql">>, {})

getRegionRates(region, tenantId, c, st, F) ==
    LET cacheKey == regionCacheKey(region, tenantId)
    IN  IF tenantId = ""
        THEN Outcome(TRUE, NoValue, c, <<>>, {})
        ELSE IF "region.get" \in F
        THEN Outcome(FALSE, RegionErrorFallback, c, <<"redis.get">>, {"region.get"})
        ELSE IF Cached(c, cacheKey)
        THEN IF "region.parse" \in F
             THEN Outcome(FALSE, RegionErrorFallback, c, <<"redis.get">>, {"region.parse"})
             ELSE LET cachedData == RedisGet(c, cacheKey)
                  IN  Outcome(FALSE,
                              [taxMultiplier |-> cachedData.taxMultiplier,
                               description |-> cachedData.description,
                               source |-> "database_cached"],
                              c, <<"redis.get">>, {})
        ELSE getRegionRatesNoCacheHit(region, tenantId, c, st, F)

\* getRegionTaxMultiplier: the multiplier of getRegionRates, 1.0 if it throws
getRegionTaxMultiplier(region, tenantId, c, st, F) ==
    LET regionData == getRegionRates(region, tenantId, c, st, F)
    IN  IF regionData.threw
        THEN Outcome(FALSE, One, regionData.cache, regionData.io, regionData.failed)
        ELSE Outcome(FALSE, regionData.value.taxMultiplier, regionData.cache,
                     regionData.io, regionData.failed)

----------------------------------------------------------------------------
(* calculateProcessingFeeFromDatabase(amount, tenantId) *)

\* calculateProcessingFeeHardcodedFallback
calculateProcessingFeeHardcodedFallback(amount) ==
    IF RLt(amount, Rat(50, 1)) THEN Rat(125, 100)
    ELSE IF RLt(amount, Rat(100, 1)) THEN Rat(2, 1)
    ELSE IF RLt(amount, Rat(500, 1)) THEN Rat(250, 100)
    ELSE Rat(5, 1)

\* SELECT ... FROM fee_structure_tiers WHERE tenant_id = $1 AND is_active = TRUE
FeeRows(st, tenantId) ==
    {r \in st.fee_structure_tiers : r.tenant_id = tenantId /\ r.is_active}

\* ORDER BY tier_order
RECURSIVE OrderByTierOrder(_)
OrderByTierOrder(rows) ==
    IF rows = {} THEN <<>>
    ELSE LET r == CHOOSE x \in rows : \A y \in rows : x.tier_order <= y.tier_order
         IN  <<r>> \o OrderByTierOrder(rows \ {r})

\* result.rows.map(row => ...): an absent max_amount reads as Infinity, an
\* absent fee_percentage as null
TierOfRow(row) ==
    [minAmount |-> row.min_amount,
     maxAmount |-> IF row.max_amount # Null THEN row.max_amount ELSE Infinity,
     feeAmount |-> row.fee_amount,
     feePercentage |-> row.fee_percentage]

\* JSON.stringify(feeTiers) and JSON.parse of it
TierJson(tier) ==
    [minAmount |-> JsonNumber(tier.minAmount),
     maxAmount |-> JsonNumber(tier.maxAmount),
     feeAmount |-> JsonNumber(tier.feeAmount),
     feePercentage |-> JsonNumber(tier.feePercentage)]

FeeTiersJson(feeTiers) == [i \in 1..Len(feeTiers) |-> TierJson(feeTiers[i])]

\* amount >= tier.minAmount && amount < tier.maxAmount
TierMatches(tier, amount) == JsGe(amount, tier.minAmount) /\ JsLt(amount, tier.maxAmount)

\* tier.feePercentage && tier.feePercentage > 0 ? amount * pct : tier.feeAmount
TierFee(tier, amount) ==
    IF IsNumber(tier.feePercentage) /\ RGt(tier.feePercentage, Zero)
    THEN RMul(amount, tier.feePercentage)
    ELSE tier.feeAmount

\* feeTiers.find(...), then the highest tier, then 5.00
FeeFromTiers(feeTiers, amount) ==
    LET hits == {i \in 1..Len(feeTiers) : TierMatches(feeTiers[i], amount)}
    IN  IF hits # {}
        THEN TierFee(feeTiers[CHOOSE i \in hits : \A j \in hits : i <= j], amount)
        ELSE IF Len(feeTiers) > 0 THEN feeTiers[Len(feeTiers)].feeAmount
        ELSE Rat(5, 1)

calculateProcessingFeeFromDatabase(amount, tenantId, c, st, F) ==
    LET cacheKey == feeTiersKey(tenantId)
        fallback == calculateProcessingFeeHardcodedFallback(amount)
        rows == FeeRows(st, tenantId)
        feeTiers == [i \in 1..Cardinality(rows) |-> TierOfRow(OrderByTierOrder(rows)[i])]
    IN  IF "fee.get" \in F
        THEN Outcome(FALSE, fallback, c, <<"redis.get">>, {"fee.get"})
        ELSE IF Cached(c, cacheKey)
        THEN Outcome(FALSE, FeeFromTiers(RedisGet(c, cacheKey), amount), c,
                     <<"redis.get">>, {})
        ELSE IF "fee.query" \in F
        THEN Outcome(FALSE, fallback, c, <<"redis.get", "execute_sql">>, {"fee.query"})
        ELSE IF rows = {}
        THEN Outcome(FALSE, fallback, c, <<"redis.get", "execute_sql">>, {})
        ELSE IF "fee.setex" \in F
        THEN Outcome(FALSE, fallback, c,
                     <<"redis.get", "execute_sql", "redis.setex">>, {"fee.setex"})
        ELSE Outcome(FALSE, FeeFromTiers(feeTiers, amount),
                     RedisSetex(c, cacheKey, FeeTiersJson(feeTiers)),
                     <<"redis.get", "execute_sql", "redis.setex">>, {})

----------------------------------------------------------------------------
(* getItemTypeAdjustmentFromDatabase(itemType, tenantId) *)

\* the emergency table
HardcodedAdjustments ==
    [food |-> Rat(1, 2), medical |-> Zero, luxury |-> Rat(12, 10),
     digital |-> Rat(8, 10), general |-> One]

\* adjustments[itemType] || 1.0: an entry that is absent or 0 gives 1.0
getItemTypeAdjustmentHardcodedFallback(itemType) ==
    IF itemType \in DOMAIN HardcodedAdjustments
       /\ HardcodedAdjustments[itemType] # Zero
    THEN HardcodedAdjustments[itemType]
    ELSE One

\* SELECT ... FROM item_type_tax_adjustments
\*   WHERE tenant_id = $1 AND item_type_code = $2 AND is_active = TRUE
ItemRows(st, tenantId, itemTypeCode) ==
    {r \in st.item_type_tax_adjustments :
        r.tenant_id = tenantId /\ r.item_type_code = itemTypeCode /\ r.is_active}

\* SELECT ... WHERE tenant_id = $1 AND is_default = TRUE AND is_active = TRUE
ItemDefaultRows(st, tenantId) ==
    {r \in st.item_type_tax_adjustments :
        r.tenant_id = tenantId /\ r.is_default /\ r.is_active}

itemCacheKey(itemType, tenantId) == itemAdjustmentsKey(tenantId) \o ":" \o itemType

\* adjustment.toString() and parseFloat of it
NumberText(x) == [text |-> x]
ParseFloat(t) == t.text

getItemTypeAdjustmentNoCacheHit(itemType, tenantId, c, st, F) ==
    LET cacheKey == itemCacheKey(itemType, tenantId)
        fallback == getItemTypeAdjustmentHardcodedFallback(itemType)
        rows == ItemRows(st, tenantId, ToLowerCase(itemType))
        defaultRows == ItemDefaultRows(st, tenantId)
    IN  IF "item.query" \in F
        THEN Outcome(FALSE, fallback, c, <<"redis.get", "execute_sql">>, {"item.query"})
        ELSE IF rows # {}
        THEN LET adjustment == FirstRow(rows).tax_adjustment_multiplier
             IN  IF "item.setex" \in F
                 THEN Outcome(FALSE, fallback, c,
                              <<"redis.get", "execute_sql", "redis.setex">>, {"item.setex"})
                 ELSE Outcome(FALSE, adjustment,
                              RedisSetex(c, cacheKey, NumberText(adjustment)),
                              <<"redis.get", "execute_sql", "redis.setex">>, {})
        ELSE IF "item.default" \in F
        THEN Outcome(FALSE, fallback, c,
                     <<"redis.get", "execute_sql", "execute_sql">>, {"item.default"})
        ELSE IF defaultRows # {}
        THEN Outcome(FALSE, FirstRow(defaultRows).tax_adjustment_multiplier, c,
                     <<"redis.get", "execute_sql", "execute_sql">>, {})
        ELSE Outcome(FALSE, One, c, <<"redis.get", "execute_sql", "execute_sql">>, {})

getItemTypeAdjustmentFromDatabase(itemType, tenantId, c, st, F) ==
    LET cacheKey == itemCacheKey(itemType, tenantId)
    IN  IF "item.get" \in F
        THEN Outcome(FALSE, getItemTypeAdjustmentHardcodedFallback(itemType), c,
                     <<"redis.get">>, {"item.get"})
        ELSE IF Cached(c, cacheKey)
        THEN Outcome(FALSE, ParseFloat(RedisGet(c, cacheKey)), c, <<"redis.get">>, {})
        ELSE getItemTypeAdjustmentNoCacheHit(itemType, tenantId, c, st, F)

----------------------------------------------------------------------------
(* calculate(input) *)

\* calculateWithEmergencyFallback
calculateWithEmergencyFallback(input) ==
    LET baseTax == RMul(input.amount, input.taxRate)
        processingFee == calculateProcessingFeeHardcodedFallback(input.amount)
        tax == ToFixed2(baseTax)
        fees == ToFixed2(processingFee)
        total == ToFixed2(RAdd(RAdd(input.amount, tax), fees))
    IN  [subtotal |-> input.amount, tax |-> tax, fees |-> fees, total |-> total,
         breakdown |-> [baseTax |-> tax, regionTax |-> Zero, processingFee |-> fees],
         configurationSource |-> "fallback_hardcoded"]

\* mutant: an amount of 0 is rejected
ValidationErrorPositiveAmount(input) ==
    IF ~RGt(input.amount, Zero) THEN "Amount must be non-negative"
    ELSE IF RLt(input.taxRate, Zero) \/ RGt(input.taxRate, One)
    THEN "Tax rate must be between 0 and 1"
    ELSE IF input.tenantId = ""
    THEN "Tenant ID is required for multi-tenant tax calculations"
    ELSE ""

\* mutant: the tenantId is not checked
ValidationErrorNoTenantCheck(input) ==
    IF RLt(input.amount, Zero) THEN "Amount must be non-negative"
    ELSE IF RLt(input.taxRate, Zero) \/ RGt(input.taxRate, One)
    THEN "Tax rate must be between 0 and 1"
    ELSE ""

\* the input validation; "" when the input passes
ValidationError(input) ==
    IF RLt(input.amount, Zero) THEN "Amount must be non-negative"
    ELSE IF RLt(input.taxRate, Zero) \/ RGt(input.taxRate, One)
    THEN "Tax rate must be between 0 and 1"
    ELSE IF input.tenantId = ""
    THEN "Tenant ID is required for multi-tenant tax calculations"
    ELSE ""

\* mutant: the total leaves the fees out
CalculationResultTotalWithoutFees(amount, baseTax, regionTax, adjustedTax, processingFee) ==
    LET tax == ToFixed2(adjustedTax)
        fees == ToFixed2(processingFee)
        total == ToFixed2(RAdd(amount, tax))
    IN  [subtotal |-> amount, tax |-> tax, fees |-> fees, total |-> total,
         breakdown |-> [baseTax |-> ToFixed2(baseTax),
                        regionTax |-> ToFixed2(regionTax),
                        processingFee |-> ToFixed2(processingFee)],
         configurationSource |-> "database"]

\* mutant: the regional part of the breakdown is returned unrounded
CalculationResultUnroundedBreakdown(amount, baseTax, regionTax, adjustedTax, processingFee) ==
    LET tax == ToFixed2(adjustedTax)
        fees == ToFixed2(processingFee)
        total == ToFixed2(RAdd(RAdd(amount, tax), fees))
    IN  [subtotal |-> amount, tax |-> tax, fees |-> fees, total |-> total,
         breakdown |-> [baseTax |-> baseTax,
                        regionTax |-> regionTax,
                        processingFee |-> ToFixed2(processingFee)],
         configurationSource |-> "database"]

\* mutant: the item-type adjustment is not applied to the tax
CalculationResultUnadjustedTax(amount, baseTax, regionTax, adjustedTax, processingFee) ==
    LET tax == ToFixed2(RAdd(baseTax, regionTax))
        fees == ToFixed2(processingFee)
        total == ToFixed2(RAdd(RAdd(amount, tax), fees))
    IN  [subtotal |-> amount, tax |-> tax, fees |-> fees, total |-> total,
         breakdown |-> [baseTax |-> ToFixed2(baseTax),
                        regionTax |-> ToFixed2(regionTax),
                        processingFee |-> ToFixed2(processingFee)],
         configurationSource |-> "database"]

\* the result of the normal path: tax, fees and total rounded to 2 decimals,
\* the breakdown rounded from the unrounded intermediates
CalculationResult(amount, baseTax, regionTax, adjustedTax, processingFee) ==
    LET tax == ToFixed2(adjustedTax)
        fees == ToFixed2(processingFee)
        total == ToFixed2(RAdd(RAdd(amount, tax), fees))
    IN  [subtotal |-> amount, tax |-> tax, fees |-> fees, total |-> total,
         breakdown |-> [baseTax |-> ToFixed2(baseTax),
                        regionTax |-> ToFixed2(regionTax),
                        processingFee |-> ToFixed2(processingFee)],
         configurationSource |-> "database"]

\* the try block and its catch: the three lookups run in order, each on the
\* cache the one before left; none of them throws, and toFixed throws only on
\* a fee that is no number, which alone sends the call to the emergency
\* fallback
calculateValidated(input, c, st, F) ==
    LET baseTax == RMul(input.amount, input.taxRate)
        rm == getRegionTaxMultiplier(input.region, input.tenantId, c, st, F)
        regionTax == RMul(baseTax, RSub(rm.value, One))
        pf == calculateProcessingFeeFromDatabase(input.amount, input.tenantId,
                                                 rm.cache, st, F)
        ia == getItemTypeAdjustmentFromDatabase(input.itemType, input.tenantId,
                                                pf.cache, st, F)
        adjustedTax == RMul(RAdd(baseTax, regionTax), ia.value)
    IN  IF ~IsNumber(pf.value)
        THEN Outcome(FALSE, calculateWithEmergencyFallback(input), ia.cache,
                     rm.io \o pf.io \o ia.io,
                     rm.failed \cup pf.failed \cup ia.failed)
        ELSE Outcome(FALSE,
                     CalculationResult(input.amount, baseTax, regionTax, adjustedTax,
                                       pf.value),
                     ia.cache, rm.io \o pf.io \o ia.io,
                     rm.failed \cup pf.failed \cup ia.failed)

calculate(input, c, st, F) ==
    IF ValidationError(input) # ""
    THEN Outcome(TRUE, NoValue, c, <<>>, {})
    ELSE calculateValidated(input, c, st, F)

----------------------------------------------------------------------------
(* The dispatch route: POST /api/cells/[sector]/[name]/actions/[action] *)

\* an error value: its class and its message
Error(class, message) == [class |-> class, message |-> message]

\* what a call of the bus or of a handler gives back: a result, or a failure
Returned(value, c) == [threw |-> FALSE, value |-> value, cache |-> c]
Thrown(error, c) == [threw |-> TRUE, error |-> error, cache |-> c]

\* the message of the Error a TaxAndFee operation throws on the payload
ThrownMessage(action, payload) ==
    IF action = "calculate" THEN ValidationError(payload)
    ELSE "Tenant ID is required for region rate lookup"

\* the cells registered on the bus and the actions each one handles
RegisteredCells == {"inventory/TaxAndFee"}
RegisteredActions == {"calculate", "getRegionRates"}

\* what the handler makes of the outcome of the cell's method
HandlerOutcome(action, payload, out) ==
    IF out.threw
    THEN Thrown(Error("Error", ThrownMessage(action, payload)), out.cache)
    ELSE Returned(out.value, out.cache)

\* the handler of inventory/TaxAndFee: the action applied to the payload
TaxAndFeeHandler(action, payload, c, st, F) ==
    HandlerOutcome(action, payload,
                   IF action = "calculate" THEN calculate(payload, c, st, F)
                   ELSE getRegionRates(payload.region, payload.tenantId, c, st, F))

\* the handler's own failure wrapped as an InvocationError with its message
Wrapped(out) ==
    IF out.threw
    THEN Thrown(Error("InvocationError", out.error.message), out.cache)
    ELSE out

\* cellBus.call: NotFound for a destination with no handler, and the
\* handler's result or its wrapped failure
cellBusCall(cellId, action, payload, c, st, F) ==
    IF cellId \notin RegisteredCells \/ action \notin RegisteredActions
    THEN Thrown(Error("NotFound", "No handler registered for " \o cellId \o ":" \o action), c)
    ELSE Wrapped(TaxAndFeeHandler(action, payload, c, st, F))

\* the response of the path check
InvalidPathResponse ==
    [status |-> 400,
     body |-> [error |-> "Invalid cell path. Expected: /api/cells/sector/name/actions/action"]]

\* mutant: the catch block answers with a fixed message
ErrorResponseUnknownError(error) ==
    [status |-> 500,
     body |-> [error |-> "Cell action failed", message |-> "Unknown error"]]

\* the response of the catch block
ErrorResponse(error) ==
    [status |-> 500,
     body |-> [error |-> "Cell action failed",
               message |-> IF error.class = "NonError" THEN "Unknown error"
                           ELSE error.message]]

\* NextResponse.json(result)
ResultResponse(result) == [status |-> 200, body |-> result]

\* request.json() on the request body
RequestJson(body, payload, c) ==
    IF body = "malformed"
    THEN Thrown(Error("SyntaxError", "Unexpected token in JSON"), c)
    ELSE Returned(payload, c)

\* the end of POST: the result of cellBus.call as a response, or the catch
\* block's response to its failure
Respond(out) ==
    IF out.threw
    THEN [response |-> ErrorResponse(out.error), cache |-> out.cache]
    ELSE [response |-> ResultResponse(out.value), cache |-> out.cache]

\* POST: the response and the cache the request leaves
POST(cellPath, body, payload, c, st, F) ==
    IF Len(cellPath) < 4 \/ cellPath[3] # "actions"
    THEN [response |-> InvalidPathResponse, cache |-> c]
    ELSE IF RequestJson(body, payload, c).threw
    THEN Respond(RequestJson(body, payload, c))
    ELSE Respond(cellBusCall(cellPath[1] \o "/" \o cellPath[2], cellPath[4],
                             RequestJson(body, payload, c).value, c, st, F))

----------------------------------------------------------------------------
(* Bounds and inputs *)

MaxAmountSteps == 2
MaxRateSteps == 1

Tenants == {"", "t1", "t2"}
Regions == {"NG", "ng", "XX"}
ItemTypes == {"food", "medical", "product"}

\* -0.01, then 0, 30.005, 60.01, ..., and 1000
Amounts ==
    {Rat(-1, 100), Rat(1000, 1)} \cup {Rat(30005 * k, 1000) : k \in 0..MaxAmountSteps}

\* -0.001, then 0.075, ..., then 1 and 1.001
Rates ==
    {Rat(-1, 1000), One, Rat(1001, 1000)} \cup {Rat(75 * k, 1000) : k \in 1..MaxRateSteps}

\* TaxCalculationInput
CalculateInputs ==
    [amount : Amounts, taxRate : Rates, region : Regions, itemType : ItemTypes,
     tenantId : Tenants]

\* the steps of the three lookups that can fail: the cache read, the parsing
\* of the cached text, the exact-match query, the cache write, the default
\* query
RegionSteps == {"region.get", "region.parse", "region.query", "region.setex",
                "region.default"}
FeeSteps == {"fee.get", "fee.query", "fee.setex"}
ItemSteps == {"item.get", "item.query", "item.setex", "item.default"}

\* failures of one getRegionRates call: none, or one step (the first step
\* that fails ends the try block)
RegionFailures == {{}} \cup {{s} : s \in RegionSteps}

\* failures of one calculate call: the cache reads, the cache writes and the
\* store queries each fail or work as a whole, or one lookup fails entirely
CacheReads == {"region.get", "region.parse", "fee.get", "item.get"}
CacheWrites == {"region.setex", "fee.setex", "item.setex"}
StoreQueries == {"region.query", "region.default", "fee.query", "item.query",
                 "item.default"}

CalculateFailures ==
    {UNION G : G \in SUBSET {CacheReads, CacheWrites, StoreQueries}}
        \cup {RegionSteps, FeeSteps, ItemSteps}

----------------------------------------------------------------------------
(* State *)

\* the paths and bodies of the requests sent to the route
CellPaths ==
    {<<"inventory", "TaxAndFee", "actions", "calculate">>,
     <<"inventory", "TaxAndFee", "actions", "getRegionRates">>,
     <<"inventory", "TaxAndFee", "actions", "refund">>,
     <<"inventory", "Unregistered", "actions", "calculate">>,
     <<"inventory", "TaxAndFee", "health", "calculate">>,
     <<"inventory", "TaxAndFee", "actions">>}
Bodies == {"json", "malformed"}
RouteFailures == {{}, CacheReads, StoreQueries}

\* last is the record of the call made in the step that led to the state:
\* the cache the call found (before), what it returned or that it threw, the
\* cache and store operations it issued, the steps that failed in it, and a
\* bit (seq) that alternates between one call and the next; NoCall after a
\* step that is no call
NoCall == [op |-> "none", seq |-> 0]

\* the multipliers the owner of tenant t1's configuration sets for region NG
RegionMultipliers == {Rat(12, 10), Rat(15, 10)}

\* tenant t1 is configured, tenant t2 has no configuration
InitialStore ==
    [tax_region_multipliers |->
        {[tenant_id |-> "t1", region_code |-> "NG", tax_multiplier |-> Rat(12, 10),
          description |-> "", is_default |-> FALSE, is_active |-> TRUE],
         [tenant_id |-> "t1", region_code |-> "DEFAULT", tax_multiplier |-> Rat(11, 10),
          description |-> "Default", is_default |-> TRUE, is_active |-> TRUE],
         [tenant_id |-> "t1", region_code |-> "XX", tax_multiplier |-> Rat(2, 1),
          description |-> "", is_default |-> FALSE, is_active |-> FALSE]},
     fee_structure_tiers |->
        {[tenant_id |-> "t1", tier_order |-> 1, min_amount |-> Zero,
          max_amount |-> Rat(50, 1), fee_amount |-> One, fee_percentage |-> Null,
          is_active |-> TRUE],
         [tenant_id |-> "t1", tier_order |-> 2, min_amount |-> Rat(50, 1),
          max_amount |-> Rat(100, 1), fee_amount |-> Rat(2, 1), fee_percentage |-> Zero,
          is_active |-> TRUE],
         [tenant_id |-> "t1", tier_order |-> 3, min_amount |-> Rat(100, 1),
          max_amount |-> Null, fee_amount |-> Rat(3, 1),
          fee_percentage |-> Rat(15, 1000), is_active |-> TRUE],
         [tenant_id |-> "t1", tier_order |-> 0, min_amount |-> Zero,
          max_amount |-> Null, fee_amount |-> Rat(9, 1), fee_percentage |-> Null,
          is_active |-> FALSE]},
     item_type_tax_adjustments |->
        {[tenant_id |-> "t1", item_type_code |-> "medical",
          tax_adjustment_multiplier |-> Zero, is_default |-> FALSE, is_active |-> TRUE],
         [tenant_id |-> "t1", item_type_code |-> "general",
          tax_adjustment_multiplier |-> Rat(9, 10), is_default |-> TRUE,
          is_active |-> TRUE]}]

\* run is the state of the getRegionRates calls in flight: where each caller
\* stands in the method (pc), the data it built from the row it read, the
\* result it returned, the writes made to the cache so far (the writer, the
\* value and whether the key was populated), and whether a store row changed
\* since the first call began
MaxCallers == 2
Callers == 1..MaxCallers

IdleRun ==
    [pc |-> [p \in Callers |-> "idle"],
     data |-> [p \in Callers |-> NoValue],
     result |-> [p \in Callers |-> NoValue],
     written |-> <<>>,
     updated |-> FALSE]

\* the B2BAccessControl cell at rest: empty tables, no identifier drawn, no
\* call answered and none in flight
NoTables ==
    [b2b_user_groups |-> {}, b2b_group_memberships |-> {},
     b2b_global_settings |-> {}, b2b_category_access_rules |-> {},
     b2b_access_audit |-> {}]

NoAnswer == [op |-> "none"]

B2BIdle ==
    /\ tables = NoTables
    /\ uuid = 0
    /\ answer = NoAnswer
    /\ calls = <<>>

\* request is the input one caller submits: a behaviour follows the calls
\* made with it under every failure pattern, cache expiry and store update
Init ==
    /\ request \in CalculateInputs
    /\ cache = <<>>
    /\ store = InitialStore
    /\ last = NoCall
    /\ run = IdleRun
    /\ B2BIdle

CallRecord(op, out) ==
    [op |-> op, seq |-> 1 - last.seq, before |-> cache, threw |-> out.threw,
     value |-> out.value, io |-> out.io, failed |-> out.failed]

\* the caller invokes getRegionRates(region, tenantId)
GetRegionRates ==
    \E F \in RegionFailures :
        \E out \in {getRegionRates(request.region, request.tenantId, cache, store, F)} :
            /\ cache' = out.cache
            /\ last' = CallRecord("getRegionRates", out)
            /\ UNCHANGED <<store, request, run, b2bVars>>

\* the caller invokes calculate(input)
Calculate ==
    \E F \in CalculateFailures :
        \E out \in {calculate(request, cache, store, F)} :
            /\ cache' = out.cache
            /\ last' = CallRecord("calculate", out)
            /\ UNCHANGED <<store, request, run, b2bVars>>

\* the time-to-live of a cache entry elapses (setex with 3600 seconds)
Expire ==
    \E key \in DOMAIN cache :
        /\ cache' = RedisExpire(cache, key)
        /\ last' = NoCall
        /\ UNCHANGED <<store, request, run, b2bVars>>

\* the configuration owner changes the multiplier of an active region row
UpdateRegionRow ==
    \E row \in store.tax_region_multipliers, m \in RegionMultipliers :
        /\ row.is_active /\ ~row.is_default /\ row.tax_multiplier # m
        /\ store' = [store EXCEPT !.tax_region_multipliers =
                        (@ \ {row}) \cup {[row EXCEPT !.tax_multiplier = m]}]
        /\ last' = NoCall
        /\ UNCHANGED <<cache, request, run, b2bVars>>

\* a client sends a POST request whose JSON body is the caller's input
Post ==
    \E cellPath \in CellPaths, body \in Bodies, F \in RouteFailures :
        \E out \in {POST(cellPath, body, request, cache, store, F)} :
            /\ cache' = out.cache
            /\ last' = [op |-> "POST", seq |-> 0, before |-> cache,
                        cellPath |-> cellPath, body |-> body, failed |-> F,
                        threw |-> FALSE, response |-> out.response]
            /\ UNCHANGED <<store, request, run, b2bVars>>

Next == GetRegionRates \/ Calculate \/ Expire \/ UpdateRegionRow

Spec == Init /\ [][Next]_vars

\* getRegionRates step by step, one awaited operation per step, for callers
\* that run at the same time with the same region and tenantId
Return(p, result) ==
    [run EXCEPT !.pc[p] = "done", !.result[p] = result]

\* the tenantId check, before the try block
BeginCall(p) ==
    /\ run.pc[p] = "idle"
    /\ run' = IF request.tenantId = "" THEN Return(p, [threw |-> TRUE])
              ELSE [run EXCEPT !.pc[p] = "redis.get"]
    /\ last' = NoCall
    /\ UNCHANGED <<cache, store, request, b2bVars>>

\* await redis.get(cacheKey), and JSON.parse on a hit
AwaitRedisGet(p) ==
    /\ run.pc[p] = "redis.get"
    /\ \E failed \in BOOLEAN :
         LET cacheKey == regionCacheKey(request.region, request.tenantId)
         IN  run' = IF failed THEN Return(p, RegionErrorFallback)
                    ELSE IF Cached(cache, cacheKey)
                    THEN Return(p, [taxMultiplier |-> RedisGet(cache, cacheKey).taxMultiplier,
                                    description |-> RedisGet(cache, cacheKey).description,
                                    source |-> "database_cached"])
                    ELSE [run EXCEPT !.pc[p] = "execute_sql"]
    /\ last' = NoCall
    /\ UNCHANGED <<cache, store, request, b2bVars>>

\* await execute_sql(query, [tenantId, region.toUpperCase()])
AwaitExactQuery(p) ==
    /\ run.pc[p] = "execute_sql"
    /\ \E failed \in BOOLEAN :
         LET rows == RegionRows(store, request.tenantId, ToUpperCase(request.region))
         IN  run' = IF failed THEN Return(p, RegionErrorFallback)
                    ELSE IF rows # {}
                    THEN [run EXCEPT !.pc[p] = "redis.setex",
                                     !.data[p] = RegionData(FirstRow(rows), request.region)]
                    ELSE [run EXCEPT !.pc[p] = "execute_sql.default"]
    /\ last' = NoCall
    /\ UNCHANGED <<cache, store, request, b2bVars>>

\* await redis.setex(cacheKey, 3600, JSON.stringify(data))
AwaitRedisSetex(p) ==
    /\ run.pc[p] = "redis.setex"
    /\ LET cacheKey == regionCacheKey(request.region, request.tenantId)
           data == run.data[p]
       IN  \/ /\ run' = Return(p, RegionErrorFallback)
              /\ cache' = cache
           \/ /\ cache' = RedisSetex(cache, cacheKey, RegionJson(data))
              /\ run' = [Return(p, [taxMultiplier |-> data.taxMultiplier,
                                    description |-> data.description,
                                    source |-> "database"])
                         EXCEPT !.written = Append(@, [by |-> p, value |-> RegionJson(data),
                                                       populated |-> Cached(cache, cacheKey)])]
    /\ last' = NoCall
    /\ UNCHANGED <<store, request, b2bVars>>

\* await execute_sql(defaultQuery, [tenantId])
AwaitDefaultQuery(p) ==
    /\ run.pc[p] = "execute_sql.default"
    /\ \E failed \in BOOLEAN :
         LET defaultRows == RegionDefaultRows(store, request.tenantId)
         IN  run' = IF failed THEN Return(p, RegionErrorFallback)
                    ELSE IF defaultRows # {}
                    THEN Return(p, [taxMultiplier |-> FirstRow(defaultRows).tax_multiplier,
                                    description |->
                                        IF FirstRow(defaultRows).description # ""
                                        THEN FirstRow(defaultRows).description
                                        ELSE "Default tax rate for unspecified regions",
                                    source |-> "database_default"])
                    ELSE Return(p, RegionEmergencyFallback)
    /\ last' = NoCall
    /\ UNCHANGED <<cache, store, request, b2bVars>>

\* the configuration owner changes the multiplier of an active region row
\* while calls are in flight
UpdateRegionRowInFlight ==
    \E row \in store.tax_region_multipliers, m \in RegionMultipliers :
        /\ row.is_active /\ ~row.is_default /\ row.tax_multiplier # m
        /\ store' = [store EXCEPT !.tax_region_multipliers =
                        (@ \ {row}) \cup {[row EXCEPT !.tax_multiplier = m]}]
        /\ run' = [run EXCEPT !.updated = TRUE]
        /\ last' = NoCall
        /\ UNCHANGED <<cache, request, b2bVars>>

\* the configuration owner changes the percentage of an active fee tier
FeePercentages == {Rat(15, 1000), Rat(20, 1000)}

UpdateFeeRow ==
    \E row \in store.fee_structure_tiers, pct \in FeePercentages :
        /\ row.is_active /\ IsNumber(row.fee_percentage) /\ row.fee_percentage # Zero
        /\ row.fee_percentage # pct
        /\ store' = [store EXCEPT !.fee_structure_tiers =
                        (@ \ {row}) \cup {[row EXCEPT !.fee_percentage = pct]}]
        /\ run' = [run EXCEPT !.updated = TRUE]
        /\ last' = NoCall
        /\ UNCHANGED <<cache, request, b2bVars>>

\* the configuration owner changes the multiplier of an active item type row
ItemMultipliers == {Zero, Rat(5, 10)}

UpdateItemRow ==
    \E row \in store.item_type_tax_adjustments, m \in ItemMultipliers :
        /\ row.is_active /\ ~row.is_default /\ row.tax_adjustment_multiplier # m
        /\ store' = [store EXCEPT !.item_type_tax_adjustments =
                        (@ \ {row}) \cup {[row EXCEPT !.tax_adjustment_multiplier = m]}]
        /\ run' = [run EXCEPT !.updated = TRUE]
        /\ last' = NoCall
        /\ UNCHANGED <<cache, request, b2bVars>>

\* the callers ask for the rates of one region and for one calculation
CallerRequests ==
    {input \in CalculateInputs :
        input.amount = Rat(1000, 1) /\ input.taxRate = Rat(75, 1000)}

InitConcurrent ==
    /\ request \in {input \in CallerRequests : input.itemType = "product"}
    /\ cache = <<>>
    /\ store = InitialStore
    /\ last = NoCall
    /\ run = IdleRun
    /\ B2BIdle

GetRegionRatesStep ==
    \E p \in Callers :
        \/ BeginCall(p)
        \/ AwaitRedisGet(p)
        \/ AwaitExactQuery(p)
        \/ AwaitRedisSetex(p)
        \/ AwaitDefaultQuery(p)

NextConcurrent == GetRegionRatesStep \/ UpdateRegionRowInFlight \/ Expire

SpecConcurrent == InitConcurrent /\ [][NextConcurrent]_vars

\* one getRegionRates call in flight while calculate calls run from start to
\* end and the configuration owner changes rows of the three tables
InFlightCall ==
    \/ BeginCall(1)
    \/ AwaitRedisGet(1)
    \/ AwaitExactQuery(1)
    \/ AwaitRedisSetex(1)
    \/ AwaitDefaultQuery(1)

\* the caller invokes calculate(input) and no cache or store operation fails
CalculateUndisturbed ==
    \E out \in {calculate(request, cache, store, {})} :
        /\ cache' = out.cache
        /\ last' = CallRecord("calculate", out)
        /\ UNCHANGED <<store, request, run, b2bVars>>

StaleRequests ==
    {input \in CallerRequests :
        /\ input.tenantId = "t1"
        /\ input.region \in {"NG", "XX"}
        /\ input.itemType \in {"medical", "product"}}

InitStaleness ==
    /\ request \in StaleRequests
    /\ cache = <<>>
    /\ store = InitialStore
    /\ last = NoCall
    /\ run = IdleRun
    /\ B2BIdle

NextStaleness ==
    \/ InFlightCall
    \/ CalculateUndisturbed
    \/ UpdateRegionRowInFlight
    \/ UpdateFeeRow
    \/ UpdateItemRow
    \/ Expire

SpecStaleness == InitStaleness /\ [][NextStaleness]_vars

\* callers of several tenants, with tenant and region texts that contain ':'
KeyTenants == {"t1", "t1:NG", "t2"}
KeyRegions == {"NG", "XX", "NG:XX"}

KeyRequests ==
    {[amount |-> Rat(1000, 1), taxRate |-> Rat(75, 1000), region |-> region,
      itemType |-> "product", tenantId |-> tenantId] :
        region \in KeyRegions, tenantId \in KeyTenants}

\* tenant t1:NG has a row of its own for region XX
KeyStore ==
    [InitialStore EXCEPT !.tax_region_multipliers = @ \cup
        {[tenant_id |-> "t1:NG", region_code |-> "XX", tax_multiplier |-> Rat(3, 1),
          description |-> "", is_default |-> FALSE, is_active |-> TRUE]}]

InitKeys ==
    /\ request \in KeyRequests
    /\ cache = <<>>
    /\ store = KeyStore
    /\ last = NoCall
    /\ run = IdleRun
    /\ B2BIdle

\* the next call comes from another caller
NextCaller ==
    /\ request' \in KeyRequests \ {request}
    /\ last' = NoCall
    /\ UNCHANGED <<cache, store, run, b2bVars>>

NextKeys == GetRegionRates \/ NextCaller \/ Expire

SpecKeys == InitKeys /\ [][NextKeys]_vars

\* the cell reached through the route only: the payloads are the caller's
\* inputs for one item type
RoutePayloads == {input \in CalculateInputs : input.itemType = "product"}

InitRoute ==
    /\ request \in RoutePayloads
    /\ cache = <<>>
    /\ store = InitialStore
    /\ last = NoCall
    /\ run = IdleRun
    /\ B2BIdle

NextRoute == Post \/ Expire

SpecRoute == InitRoute /\ [][NextRoute]_vars

----------------------------------------------------------------------------
(* B2BAccessControl cell                                                   *)
(* (src/platforms/cells/ecommerce/B2BAccessControl/src/server.ts).         *)
(*                                                                         *)
(* tables holds the rows of the cell's tables, NULL columns as "null".     *)
(* Every membership is stored without expiry date.  A call runs in the     *)
(* context ctx of its request: the answers the authentication cell gives   *)
(* for it.  F is the set of store statements that fail during the call and *)
(* every operation yields the set of answers it can give, each with its   *)
(* result, the tables it leaves, the identifiers it drew and io, the       *)
(* tenant each statement it ran was bound to.                              *)

\* cellBus.call('auth/AuthenticationCore', 'getCurrentTenant'): the tenant of
\* the request, "null" when the call fails or carries none
getSecureTenantId(ctx) ==
    IF ctx.tenantId = "null"
    THEN [threw |-> TRUE, error |-> Error("Error", "Authentication required")]
    ELSE [threw |-> FALSE, value |-> ctx.tenantId]

\* cellBus.call('auth/AuthenticationCore', 'getCurrentUser')
getCurrentUser(ctx) == ctx.user

\* cellBus.call('auth/AuthenticationCore', 'checkPermission'): the service
\* answers ("answers"), answers with success false ("fails"), answers with a
\* hasPermission that is not the boolean true ("truthy") or throws ("throws")
hasPermission(ctx, userId, tenantId, permission) ==
    /\ ctx.checkPermission = "answers"
    /\ <<tenantId, permission>> \in ctx.grants

Statement(table, tenantId, kind) ==
    [table |-> table, tenant_id |-> tenantId, kind |-> kind]

Answer(result, T, drawn, io) ==
    [result |-> result, tables |-> T, uuid |-> drawn, io |-> io]

\* the rows of b2b_category_access_rules the query of checkUserCategoryAccess
\* selects
ApplicableRules(T, tenantId, userId, categoryId) ==
    {car \in T.b2b_category_access_rules :
        /\ car.tenant_id = tenantId
        /\ car.category_id = categoryId
        /\ \/ car.user_id = userId
           \/ /\ car.group_id # "null"
              /\ \E gm \in T.b2b_group_memberships :
                    /\ gm.group_id = car.group_id
                    /\ gm.user_id = userId
                    /\ gm.membership_status = "active"
           \/ car.rule_scope = "global"}

\* mutant: the lowest priority comes first
FirstRulesLowestPriority(rules) ==
    {car \in rules :
        \A other \in rules :
            \/ car.priority < other.priority
            \/ car.priority = other.priority /\ car.created_at <= other.created_at}

\* ORDER BY car.priority DESC, car.created_at ASC: the rows that can come first
FirstRules(rules) ==
    {car \in rules :
        \A other \in rules :
            \/ car.priority > other.priority
            \/ car.priority = other.priority /\ car.created_at <= other.created_at}

rule_type(car) ==
    IF car.user_id # "null" THEN "user"
    ELSE IF car.group_id # "null" THEN "group"
    ELSE "global"

AllActions == {"view_product", "view_price", "add_to_cart", "purchase"}

NoRuleAccess ==
    [hasAccess |-> TRUE, restrictionLevel |-> "none",
     restrictionReason |-> "undefined", allowedActions |-> AllActions,
     requiredApprovals |-> {}]

CategoryAccessFailed ==
    [hasAccess |-> FALSE, restrictionLevel |-> "full",
     restrictionReason |-> "Category access check failed",
     allowedActions |-> {}, requiredApprovals |-> {}]

PrimaryRuleAccess(primaryRule) ==
    CASE primaryRule.access_type = "allow" ->
            [hasAccess |-> TRUE, restrictionLevel |-> "none",
             restrictionReason |-> "undefined", allowedActions |-> AllActions,
             requiredApprovals |-> {}]
      [] primaryRule.access_type = "deny" ->
            [hasAccess |-> FALSE, restrictionLevel |-> "full",
             restrictionReason |-> rule_type(primaryRule),
             allowedActions |-> {}, requiredApprovals |-> {}]
      [] primaryRule.access_type = "request_approval" ->
            [hasAccess |-> TRUE, restrictionLevel |-> "partial",
             restrictionReason |-> "Purchase requires approval for this category",
             allowedActions |-> {"view_product", "view_price"},
             requiredApprovals |-> {"purchase_approval"}]

\* the results checkUserCategoryAccess can return: one for each row the
\* ordering can put first
checkUserCategoryAccess(params, T, F) ==
    IF "rules" \in F THEN {CategoryAccessFailed}
    ELSE LET rules == ApplicableRules(T, params.tenantId, params.userId,
                                      params.categoryId)
         IN  IF rules = {} THEN {NoRuleAccess}
             ELSE {PrimaryRuleAccess(primaryRule) :
                      primaryRule \in FirstRules(rules)}

CategoryAccessIo(tenantId) ==
    {Statement("b2b_category_access_rules", tenantId, "read")}

CheckCategoryAccessFailed ==
    [success |-> FALSE, hasAccess |-> FALSE, restrictionLevel |-> "full",
     restrictionReason |-> "Category access check failed",
     allowedActions |-> {}]

CheckCategoryAccessGuest ==
    [success |-> TRUE, hasAccess |-> FALSE, restrictionLevel |-> "full",
     restrictionReason |-> "Authentication required for category access",
     allowedActions |-> {}]

Succeeded(categoryAccess) ==
    [success |-> TRUE, hasAccess |-> categoryAccess.hasAccess,
     restrictionLevel |-> categoryAccess.restrictionLevel,
     restrictionReason |-> categoryAccess.restrictionReason,
     allowedActions |-> categoryAccess.allowedActions,
     requiredApprovals |-> categoryAccess.requiredApprovals]

checkCategoryAccess(params, ctx, T, F) ==
    IF getSecureTenantId(ctx).threw
    THEN {Answer(CheckCategoryAccessFailed, T, 0, {})}
    ELSE LET userId ==
                 IF params.userId # "null" THEN params.userId
                 ELSE getCurrentUser(ctx)
         IN  IF userId = "null"
             THEN {Answer(CheckCategoryAccessGuest, T, 0, {})}
             ELSE {Answer(Succeeded(categoryAccess), T, 0,
                           CategoryAccessIo(ctx.tenantId)) :
                      categoryAccess \in checkUserCategoryAccess(
                          [userId |-> userId, categoryId |-> params.categoryId,
                           tenantId |-> ctx.tenantId], T, F)}

\* logB2BAccessAttempt: the INSERT into b2b_access_audit, whose failure is
\* swallowed
logB2BAccessAttempt(params, T, F) ==
    IF "audit" \in F THEN T
    ELSE [T EXCEPT !.b2b_access_audit = @ \cup {params}]

AuditRow(tenantId, userId, params, accessGranted) ==
    [tenant_id |-> tenantId, user_id |-> userId,
     resource_type |-> IF userId = "null" THEN "price" ELSE "category",
     resource_id |-> IF params.categoryId = "null" THEN "unknown"
                     ELSE params.categoryId,
     access_granted |-> accessGranted]

CheckGuestPriceAccessFailed ==
    [success |-> FALSE, canViewPrice |-> FALSE, canViewProduct |-> FALSE,
     loginRequired |-> TRUE, groupRequired |-> FALSE,
     appliedRules |-> <<"error_fallback">>]

\* the b2b_global_settings row of the tenant, or the built-in settings
GlobalSettings(T, tenantId) ==
    LET rows == {row \in T.b2b_global_settings : row.tenant_id = tenantId}
    IN  IF rows = {} THEN [tenant_id |-> tenantId,
                           default_hide_from_guests |-> FALSE]
        ELSE CHOOSE row \in rows : TRUE

GuestAccess(globalSettings) ==
    [success |-> TRUE,
     canViewPrice |-> ~globalSettings.default_hide_from_guests,
     canViewProduct |-> TRUE,
     loginRequired |-> globalSettings.default_hide_from_guests,
     groupRequired |-> FALSE,
     appliedRules |-> <<"global_guest_settings">>]

\* the active memberships of the user joined with their groups
ActiveMemberships(T, tenantId, userId) ==
    {[gm |-> gm, g |-> g] :
        <<gm, g>> \in {pair \in T.b2b_group_memberships \X T.b2b_user_groups :
            /\ pair[2].id = pair[1].group_id
            /\ pair[1].tenant_id = tenantId
            /\ pair[1].user_id = userId
            /\ pair[1].membership_status = "active"}}

\* ORDER BY g.priority_level DESC, gm.created_at ASC: the rows that can come
\* first
FirstMemberships(rows) ==
    {row \in rows :
        \A other \in rows :
            \/ row.g.priority_level > other.g.priority_level
            \/ /\ row.g.priority_level = other.g.priority_level
               /\ row.gm.created_at <= other.gm.created_at}

DefaultCustomerAccess ==
    [success |-> TRUE, canViewPrice |-> TRUE, canViewProduct |-> TRUE,
     loginRequired |-> FALSE, groupRequired |-> FALSE,
     appliedRules |-> <<"default_customer">>]

GroupAccess(primaryMembership) ==
    LET priceVisible ==
            primaryMembership.g.price_visibility \in {"visible", "partial"}
    IN  [success |-> TRUE, canViewPrice |-> priceVisible,
         canViewProduct |-> TRUE, loginRequired |-> FALSE,
         groupRequired |-> ~priceVisible,
         appliedRules |-> <<"group">>]

\* the access results the memberships of a logged-in user give
MembershipAccess(rows) ==
    IF rows = {} THEN {DefaultCustomerAccess}
    ELSE {GroupAccess(primaryMembership) :
             primaryMembership \in FirstMemberships(rows)}

\* the category-specific restriction laid over the access result
CategoryRestricted(accessResult, categoryAccess) ==
    IF categoryAccess.hasAccess THEN accessResult
    ELSE [accessResult EXCEPT
             !.canViewPrice = FALSE,
             !.canViewProduct = categoryAccess.restrictionLevel # "full",
             !.appliedRules = Append(@, "category_restriction")]

\* the access results of a logged-in user
UserAccess(params, tenantId, userId, T, F) ==
    IF params.categoryId = "null"
    THEN MembershipAccess(ActiveMemberships(T, tenantId, userId))
    ELSE {CategoryRestricted(accessResult, categoryAccess) :
             <<accessResult, categoryAccess>> \in
                 MembershipAccess(ActiveMemberships(T, tenantId, userId))
                 \X checkUserCategoryAccess(
                        [userId |-> userId, categoryId |-> params.categoryId,
                         tenantId |-> tenantId], T, F)}

Logged(accessResult, tenantId, userId, params, T, F, io) ==
    Answer(accessResult,
           logB2BAccessAttempt(AuditRow(tenantId, userId, params,
                                        accessResult.canViewPrice), T, F),
           0, io \cup {Statement("b2b_access_audit", tenantId, "write")})

GuestIo(tenantId) == {Statement("b2b_global_settings", tenantId, "read")}

UserIo(tenantId, categoryId) ==
    {Statement("b2b_global_settings", tenantId, "read"),
     Statement("b2b_group_memberships", tenantId, "read")}
    \cup (IF categoryId = "null" THEN {} ELSE CategoryAccessIo(tenantId))

checkGuestPriceAccess(params, ctx, T, F) ==
    IF getSecureTenantId(ctx).threw \/ "settings" \in F
    THEN {Answer(CheckGuestPriceAccessFailed, T, 0, {})}
    ELSE IF getCurrentUser(ctx) = "null"
    THEN {Logged(GuestAccess(GlobalSettings(T, ctx.tenantId)), ctx.tenantId,
                 "null", params, T, F, GuestIo(ctx.tenantId))}
    ELSE IF "memberships" \in F
    THEN {Answer(CheckGuestPriceAccessFailed, T, 0, GuestIo(ctx.tenantId))}
    ELSE {Logged(accessResult, ctx.tenantId, getCurrentUser(ctx), params, T,
                 F, UserIo(ctx.tenantId, params.categoryId)) :
             accessResult \in UserAccess(params, ctx.tenantId,
                                         getCurrentUser(ctx), T, F)}

----------------------------------------------------------------------------
(* B2BAccessControl: state and access checks *)

\* the TaxAndFee cell at rest while the B2BAccessControl cell is called
TaxIdle ==
    /\ request = CHOOSE input \in RoutePayloads : TRUE
    /\ cache = <<>>
    /\ store = InitialStore
    /\ last = NoCall
    /\ run = IdleRun

\* the rows b2b_access_audit can hold
MaxAuditRows == 1

\* a call of an operation of the cell answers with out
B2BCall(op, params, ctx, F, out) ==
    /\ tables' = out.tables
    /\ uuid' = uuid + out.uuid
    /\ answer' = [op |-> op, params |-> params, ctx |-> ctx, failed |-> F,
                  result |-> out.result, io |-> out.io]
    /\ UNCHANGED <<calls, taxVars>>

Group(id, tenantId, code, requiresApproval, priceVisibility, priority) ==
    [id |-> id, tenant_id |-> tenantId, group_name |-> code,
     group_code |-> code, requires_approval |-> requiresApproval,
     price_visibility |-> priceVisibility, priority_level |-> priority]

Membership(id, tenantId, userId, groupId, status, createdAt) ==
    [id |-> id, tenant_id |-> tenantId, user_id |-> userId,
     group_id |-> groupId, membership_status |-> status,
     created_at |-> createdAt]

\* the identifier the n-th call of crypto.randomUUID() gives
randomUUID(n) == "uuid-" \o ToString(n)

\* the groups of the access checks: one that shows prices, one that hides them
AccessGroups ==
    {Group("g1", "t1", "WHOLESALE", FALSE, "visible", 5),
     Group("g2", "t1", "RETAIL", FALSE, "hidden", 6)}

AccessTypes == {"allow", "deny", "request_approval"}
Priorities == {1, 2}

RuleTargets ==
    {[rule_scope |-> "user", user_id |-> "u1", group_id |-> "null"],
     [rule_scope |-> "user", user_id |-> "u2", group_id |-> "null"],
     [rule_scope |-> "group", user_id |-> "null", group_id |-> "g1"],
     [rule_scope |-> "global", user_id |-> "null", group_id |-> "null"]}

Rule(id, target, accessType, priority, createdAt) ==
    [id |-> id, tenant_id |-> "t1", category_id |-> "c1",
     rule_scope |-> target.rule_scope, user_id |-> target.user_id,
     group_id |-> target.group_id, access_type |-> accessType,
     priority |-> priority, created_at |-> createdAt]

FirstRule ==
    {Rule("r1", target, accessType, priority, 1) :
        target \in RuleTargets, accessType \in AccessTypes,
        priority \in Priorities}

SecondRule(first) ==
    {Rule("r2", target, accessType, priority, createdAt) :
        target \in RuleTargets \ {[rule_scope |-> "user", user_id |-> "u2",
                                   group_id |-> "null"]},
        accessType \in AccessTypes \ {first.access_type},
        priority \in Priorities, createdAt \in {1, 2}}

\* the tables of category access rules: none, one rule, or two rules of
\* different access types
RuleTables ==
    {{}} \cup {{first} : first \in FirstRule}
         \cup UNION {{{first, second} : second \in SecondRule(first)} :
                        first \in FirstRule}

Tables(memberships, settings, rules) ==
    [b2b_user_groups |-> AccessGroups,
     b2b_group_memberships |-> memberships,
     b2b_global_settings |-> settings,
     b2b_category_access_rules |-> rules,
     b2b_access_audit |-> {}]

Context(tenantId, user) ==
    [tenantId |-> tenantId, user |-> user, checkPermission |-> "answers",
     grants |-> {}]

AccessContexts ==
    {Context("t1", "u1"), Context("t1", "null"), Context("null", "u1")}

CategoryMemberships ==
    {{}} \cup {{Membership("m1", "t1", "u1", "g1", status, 1)} :
                  status \in {"active", "revoked"}}

InitCategory ==
    /\ TaxIdle
    /\ \E rules \in RuleTables, memberships \in CategoryMemberships :
          tables = Tables(memberships, {}, rules)
    /\ uuid = 0
    /\ answer = NoAnswer
    /\ calls = <<>>

CheckCategoryAccess ==
    \E params \in [categoryId : {"c1"}, userId : {"u1", "null"}],
       ctx \in AccessContexts, F \in {{}, {"rules"}} :
        \E out \in checkCategoryAccess(params, ctx, tables, F) :
            B2BCall("checkCategoryAccess", params, ctx, F, out)

NextCategory == CheckCategoryAccess

SpecCategory == InitCategory /\ [][NextCategory]_vars

\* the rule tables of the price checks: rules that allow or deny, created at
\* different moments
PriceRuleTables ==
    {rules \in RuleTables :
        /\ \A car \in rules : car.access_type # "request_approval"
        /\ \A car \in rules : car.id = "r2" => car.created_at = 2}

PriceMemberships ==
    {{}} \cup {{Membership("m1", "t1", "u1", groupId, "active", 1)} :
                  groupId \in {"g1", "g2"}}

SettingsTables ==
    {{}, {[tenant_id |-> "t1", default_hide_from_guests |-> TRUE]}}

InitPrice ==
    /\ TaxIdle
    /\ \E rules \in PriceRuleTables, memberships \in PriceMemberships,
          settings \in SettingsTables :
            tables = Tables(memberships, settings, rules)
    /\ uuid = 0
    /\ answer = NoAnswer
    /\ calls = <<>>

CheckGuestPriceAccess ==
    \E params \in [categoryId : {"c1", "null"}, userId : {"null"}],
       ctx \in AccessContexts, F \in {{}, {"settings"}, {"audit"}} :
        /\ Cardinality(tables.b2b_access_audit) < MaxAuditRows
        /\ \E out \in checkGuestPriceAccess(params, ctx, tables, F) :
              B2BCall("checkGuestPriceAccess", params, ctx, F, out)

NextPrice == CheckGuestPriceAccess

SpecPrice == InitPrice /\ [][NextPrice]_vars

----------------------------------------------------------------------------
(* B2BAccessControl: groups and memberships *)

Failure(error) == [success |-> FALSE, error |-> error]

\* the steps that open an operation: the tenant (a value or a throw), the
\* current user, the permission check; "granted" or the failure returned
Gate(tenant, ctx, permission, failed, insufficient) ==
    IF tenant.threw THEN Failure(failed)
    ELSE IF getCurrentUser(ctx) = "null" THEN Failure("Authentication required")
    ELSE IF ~hasPermission(ctx, getCurrentUser(ctx), tenant.value, permission)
    THEN Failure(insufficient)
    ELSE [success |-> TRUE]

\* the group names CreateB2BGroupSchema rejects: shorter than two characters
InvalidGroupNames == {"W"}

ExistingGroups(T, tenantId, params) ==
    {g \in T.b2b_user_groups :
        /\ g.tenant_id = tenantId
        /\ g.group_name = params.groupName \/ g.group_code = params.groupCode}

\* the row createB2BGroup inserts
NewGroup(groupId, tenantId, params) ==
    [id |-> groupId, tenant_id |-> tenantId, group_name |-> params.groupName,
     group_code |-> params.groupCode,
     requires_approval |-> params.requiresApproval,
     price_visibility |-> params.priceVisibility,
     priority_level |-> params.priorityLevel]

GroupIo(tenantId) ==
    {Statement("b2b_user_groups", tenantId, "read"),
     Statement("b2b_user_groups", tenantId, "write")}

CreateB2BGroupFailed == Failure("Failed to create B2B group")

\* createB2BGroup after the permission check, with crypto.randomUUID() called
\* for the n-th time
CreateGroup(params, tenantId, T, n, F) ==
    IF params.groupName \in InvalidGroupNames
    THEN Answer(Failure("Validation error"), T, 0, {})
    ELSE IF "existing" \in F
    THEN Answer(CreateB2BGroupFailed, T, 0, {})
    ELSE IF ExistingGroups(T, tenantId, params) # {}
    THEN Answer(Failure("Group name or code already exists"), T, 0,
                {Statement("b2b_user_groups", tenantId, "read")})
    ELSE IF "insert" \in F
    THEN Answer(CreateB2BGroupFailed, T, 1,
                {Statement("b2b_user_groups", tenantId, "read")})
    ELSE Answer([success |-> TRUE, groupId |-> randomUUID(n)],
                [T EXCEPT !.b2b_user_groups =
                              @ \cup {NewGroup(randomUUID(n), tenantId,
                                               params)}],
                1, GroupIo(tenantId))

createB2BGroup(params, ctx, T, n, F) ==
    IF Gate(getSecureTenantId(ctx), ctx, "b2b.groups.create",
            "Failed to create B2B group",
            "Insufficient permissions to create B2B groups").success
    THEN CreateGroup(params, ctx.tenantId, T, n, F)
    ELSE Answer(Gate(getSecureTenantId(ctx), ctx, "b2b.groups.create",
                     "Failed to create B2B group",
                     "Insufficient permissions to create B2B groups"),
                T, 0, {})

\* the rows of the users table
Users == {"u1", "u2"}

GroupsById(T, tenantId, groupId) ==
    {g \in T.b2b_user_groups : g.id = groupId /\ g.tenant_id = tenantId}

MembershipsOf(T, tenantId, userId, groupId) ==
    {gm \in T.b2b_group_memberships :
        /\ gm.tenant_id = tenantId
        /\ gm.user_id = userId
        /\ gm.group_id = groupId}

\* mutant: a conflicting row is left as it is
UpsertMembershipKeepStatus(T, n, tenantId, userId, groupId, status) ==
    IF MembershipsOf(T, tenantId, userId, groupId) = {}
    THEN [T EXCEPT !.b2b_group_memberships =
              @ \cup {Membership(randomUUID(n), tenantId, userId, groupId,
                                 status, n)}]
    ELSE T

\* INSERT ... ON CONFLICT (tenant_id, user_id, group_id) DO UPDATE SET
\* membership_status = EXCLUDED.membership_status, ...: a conflicting row
\* keeps its id and takes the status
UpsertMembership(T, n, tenantId, userId, groupId, status) ==
    IF MembershipsOf(T, tenantId, userId, groupId) = {}
    THEN [T EXCEPT !.b2b_group_memberships =
              @ \cup {Membership(randomUUID(n), tenantId, userId, groupId,
                                 status, n)}]
    ELSE [T EXCEPT !.b2b_group_memberships =
              {IF gm \in MembershipsOf(T, tenantId, userId, groupId)
               THEN [gm EXCEPT !.membership_status = status]
               ELSE gm : gm \in @}]

AssignIo(tenantId) ==
    {Statement("users", "unscoped", "read"),
     Statement("b2b_user_groups", tenantId, "read"),
     Statement("b2b_group_memberships", tenantId, "read")}

AssignFailed == Failure("Failed to assign user to B2B group")

MembershipStatus(group) ==
    IF group.requires_approval THEN "pending" ELSE "active"

\* assignUserToB2BGroup after the permission check, with crypto.randomUUID()
\* called for the n-th time
AssignUser(params, tenantId, T, n, F) ==
    IF "users" \in F THEN Answer(AssignFailed, T, 0, {})
    ELSE IF params.userId \notin Users
    THEN Answer(Failure("User not found"), T, 0,
                {Statement("users", "unscoped", "read")})
    ELSE IF GroupsById(T, tenantId, params.groupId) = {}
    THEN Answer(Failure("B2B group not found"), T, 0,
                {Statement("users", "unscoped", "read"),
                 Statement("b2b_user_groups", tenantId, "read")})
    ELSE IF \E existing \in MembershipsOf(T, tenantId, params.userId,
                                          params.groupId) :
                existing.membership_status = "active"
    THEN Answer(Failure("User is already an active member of this group"),
                T, 0, AssignIo(tenantId))
    ELSE IF "upsert" \in F THEN Answer(AssignFailed, T, 1, AssignIo(tenantId))
    ELSE Answer([success |-> TRUE, membershipId |-> randomUUID(n)],
                UpsertMembership(T, n, tenantId, params.userId,
                    params.groupId,
                    MembershipStatus(CHOOSE group \in
                        GroupsById(T, tenantId, params.groupId) : TRUE)),
                1, AssignIo(tenantId) \cup
                   {Statement("b2b_group_memberships", tenantId, "write")})

assignUserToB2BGroup(params, ctx, T, n, F) ==
    IF Gate(getSecureTenantId(ctx), ctx, "b2b.memberships.create",
            "Failed to assign user to B2B group",
            "Insufficient permissions to assign users to B2B groups").success
    THEN AssignUser(params, ctx.tenantId, T, n, F)
    ELSE Answer(Gate(getSecureTenantId(ctx), ctx, "b2b.memberships.create",
                     "Failed to assign user to B2B group",
                     "Insufficient permissions to assign users to B2B groups"),
                T, 0, {})

\* const tenantId = params.tenantId || await getSecureTenantId()
RemoveTenant(params, ctx) ==
    IF params.tenantId # "null"
    THEN [threw |-> FALSE, value |-> params.tenantId]
    ELSE getSecureTenantId(ctx)

\* UPDATE b2b_group_memberships SET membership_status = 'revoked'
\* WHERE tenant_id = $1 AND user_id = $2 AND group_id = $3
RevokeMembership(T, tenantId, userId, groupId) ==
    [T EXCEPT !.b2b_group_memberships =
        {IF gm \in MembershipsOf(T, tenantId, userId, groupId)
         THEN [gm EXCEPT !.membership_status = "revoked"]
         ELSE gm : gm \in @}]

\* removeUserFromB2BGroup after the permission check
RemoveUser(params, tenantId, T, F) ==
    IF "update" \in F
    THEN Answer(Failure("Failed to remove user from B2B group"), T, 0, {})
    ELSE IF MembershipsOf(T, tenantId, params.userId, params.groupId) = {}
    THEN Answer(Failure("Membership not found or already revoked"), T, 0,
                {Statement("b2b_group_memberships", tenantId, "write")})
    ELSE Answer([success |-> TRUE,
                 message |-> "User successfully removed from B2B group"],
                RevokeMembership(T, tenantId, params.userId, params.groupId),
                0, {Statement("b2b_group_memberships", tenantId, "write")})

removeUserFromB2BGroup(params, ctx, T, F) ==
    IF Gate(RemoveTenant(params, ctx), ctx, "b2b.memberships.delete",
            "Failed to remove user from B2B group",
            "Insufficient permissions to remove users from B2B groups").success
    THEN RemoveUser(params, RemoveTenant(params, ctx).value, T, F)
    ELSE Answer(Gate(RemoveTenant(params, ctx), ctx, "b2b.memberships.delete",
                     "Failed to remove user from B2B group",
                     "Insufficient permissions to remove users from B2B groups"),
                T, 0, {})

----------------------------------------------------------------------------
(* B2BAccessControl: listings, settings and the access report *)

\* listB2BGroups after the permission check, called without filters
ListGroups(tenantId, T, F) ==
    IF "list" \in F
    THEN Answer(Failure("Failed to list B2B groups"), T, 0, {})
    ELSE Answer([success |-> TRUE,
                 groups |-> {g.id : g \in {row \in T.b2b_user_groups :
                                              row.tenant_id = tenantId}}],
                T, 0, {Statement("b2b_user_groups", tenantId, "read")})

listB2BGroups(ctx, T, F) ==
    IF Gate(getSecureTenantId(ctx), ctx, "b2b.groups.view",
            "Failed to list B2B groups",
            "Insufficient permissions to view B2B groups").success
    THEN ListGroups(ctx.tenantId, T, F)
    ELSE Answer(Gate(getSecureTenantId(ctx), ctx, "b2b.groups.view",
                     "Failed to list B2B groups",
                     "Insufficient permissions to view B2B groups"),
                T, 0, {})

\* getB2BGroupMembers after the permission check, called without filters
GroupMembers(params, tenantId, T, F) ==
    IF "members" \in F
    THEN Answer(Failure("Failed to get group members"), T, 0, {})
    ELSE Answer([success |-> TRUE,
                 members |-> {gm.id : gm \in
                     {row \in T.b2b_group_memberships :
                         /\ row.tenant_id = tenantId
                         /\ row.group_id = params.groupId
                         /\ row.user_id \in Users
                         /\ \E g \in T.b2b_user_groups : g.id = row.group_id}}],
                T, 0, {Statement("b2b_group_memberships", tenantId, "read")})

getB2BGroupMembers(params, ctx, T, F) ==
    IF Gate(getSecureTenantId(ctx), ctx, "b2b.memberships.view",
            "Failed to get group members",
            "Insufficient permissions to view group members").success
    THEN GroupMembers(params, ctx.tenantId, T, F)
    ELSE Answer(Gate(getSecureTenantId(ctx), ctx, "b2b.memberships.view",
                     "Failed to get group members",
                     "Insufficient permissions to view group members"),
                T, 0, {})

\* INSERT INTO b2b_global_settings ... ON CONFLICT (tenant_id) DO UPDATE
UpsertSettings(T, tenantId, params) ==
    [T EXCEPT !.b2b_global_settings =
        {row \in @ : row.tenant_id # tenantId}
        \cup {[tenant_id |-> tenantId,
               default_hide_from_guests |-> params.hideFromGuests]}]

\* updatePriceVisibilitySettings after the permission check
UpdateSettings(params, tenantId, T, F) ==
    IF "settings" \in F
    THEN Answer(Failure("Failed to update price visibility settings"), T, 0,
                {})
    ELSE Answer([success |-> TRUE, settings |-> params],
                UpsertSettings(T, tenantId, params), 0,
                {Statement("b2b_global_settings", tenantId, "write")})

updatePriceVisibilitySettings(params, ctx, T, F) ==
    IF Gate(getSecureTenantId(ctx), ctx, "b2b.settings.update",
            "Failed to update price visibility settings",
            "Insufficient permissions to update B2B settings").success
    THEN UpdateSettings(params, ctx.tenantId, T, F)
    ELSE Answer(Gate(getSecureTenantId(ctx), ctx, "b2b.settings.update",
                     "Failed to update price visibility settings",
                     "Insufficient permissions to update B2B settings"),
                T, 0, {})

\* getPriceVisibilitySettings after the permission check
ViewSettings(tenantId, T, F) ==
    IF "settings" \in F
    THEN Answer(Failure("Failed to get price visibility settings"), T, 0, {})
    ELSE Answer([success |-> TRUE,
                 settings |-> [hideFromGuests |->
                     GlobalSettings(T, tenantId).default_hide_from_guests]],
                T, 0, {Statement("b2b_global_settings", tenantId, "read")})

getPriceVisibilitySettings(ctx, T, F) ==
    IF Gate(getSecureTenantId(ctx), ctx, "b2b.settings.view",
            "Failed to get price visibility settings",
            "Insufficient permissions to view B2B settings").success
    THEN ViewSettings(ctx.tenantId, T, F)
    ELSE Answer(Gate(getSecureTenantId(ctx), ctx, "b2b.settings.view",
                     "Failed to get price visibility settings",
                     "Insufficient permissions to view B2B settings"),
                T, 0, {})

\* generateAccessReport after the permission check, called without filters
AccessReport(tenantId, T, F) ==
    IF "report" \in F
    THEN Answer(Failure("Failed to generate access report"), T, 0, {})
    ELSE Answer([success |-> TRUE,
                 report |-> {ba \in T.b2b_access_audit :
                                ba.tenant_id = tenantId}],
                T, 0, {Statement("b2b_access_audit", tenantId, "read")})

generateAccessReport(ctx, T, F) ==
    IF Gate(getSecureTenantId(ctx), ctx, "b2b.reports.view",
            "Failed to generate access report",
            "Insufficient permissions to view B2B reports").success
    THEN AccessReport(ctx.tenantId, T, F)
    ELSE Answer(Gate(getSecureTenantId(ctx), ctx, "b2b.reports.view",
                     "Failed to generate access report",
                     "Insufficient permissions to view B2B reports"),
                T, 0, {})

----------------------------------------------------------------------------
(* B2BAccessControl: assignments and removals *)

\* the calls of crypto.randomUUID() a behaviour makes
MaxDraws == 2

Permissions ==
    {"b2b.groups.create", "b2b.memberships.create", "b2b.memberships.delete",
     "b2b.groups.view", "b2b.memberships.view", "b2b.settings.update",
     "b2b.settings.view", "b2b.reports.view"}

\* the request of an administrator of tenant t1 and the request of a user of
\* t1 without permissions
Administrator ==
    [tenantId |-> "t1", user |-> "u1", checkPermission |-> "answers",
     grants |-> {"t1"} \X Permissions]

MembershipContexts == {Administrator, Context("t1", "u1")}

\* a group joined at once, a group joined on approval, a group of another
\* tenant
MembershipGroups ==
    {Group("g1", "t1", "WHOLESALE", FALSE, "visible", 5),
     Group("g2", "t1", "RETAIL", TRUE, "hidden", 6),
     Group("g3", "t2", "WHOLESALE", FALSE, "visible", 5)}

MembershipParams ==
    [userId : {"u1", "u9"}, groupId : {"g1", "g2", "g3"}, tenantId : {"null"}]

InitMembership ==
    /\ TaxIdle
    /\ tables = [NoTables EXCEPT !.b2b_user_groups = MembershipGroups]
    /\ uuid = 0
    /\ answer = NoAnswer
    /\ calls = <<>>

AssignUserToB2BGroup ==
    \E params \in MembershipParams, ctx \in MembershipContexts,
       F \in {{}, {"upsert"}} :
        /\ uuid < MaxDraws
        /\ \E out \in {assignUserToB2BGroup(params, ctx, tables, uuid + 1, F)} :
              B2BCall("assignUserToB2BGroup", params, ctx, F, out)

RemoveUserFromB2BGroup ==
    \E params \in MembershipParams, ctx \in MembershipContexts,
       F \in {{}, {"update"}} :
        \E out \in {removeUserFromB2BGroup(params, ctx, tables, F)} :
            B2BCall("removeUserFromB2BGroup", params, ctx, F, out)

NextMembership == AssignUserToB2BGroup \/ RemoveUserFromB2BGroup

SpecMembership == InitMembership /\ [][NextMembership]_vars

----------------------------------------------------------------------------
(* B2BAccessControl: the guarded operations under every answer of the      *)
(* authentication cell                                                     *)

AllGrants == {"t1", "t2"} \X Permissions

\* what checkPermission grants the user of a request that needs the
\* permission: nothing, the permission in the tenant of the request, another
\* permission in that tenant, or the permission in another tenant
Grants(permission) ==
    {{}, {<<"t1", permission>>}, {<<"t2", permission>>},
     {<<"t1", CHOOSE other \in Permissions : other # permission>>}}

\* the requests: a user of tenant t1 with one of the grants, a request whose
\* tenant cannot be obtained, a request without user, and requests whose
\* permission check fails, throws or answers with a value that is not true
GuardContexts(permission) ==
    {[tenantId |-> "t1", user |-> "u1", checkPermission |-> "answers",
      grants |-> grants] : grants \in Grants(permission)}
    \cup {[tenantId |-> "null", user |-> "u1", checkPermission |-> "answers",
           grants |-> AllGrants],
          [tenantId |-> "t1", user |-> "null", checkPermission |-> "answers",
           grants |-> AllGrants]}
    \cup {[tenantId |-> "t1", user |-> "u1", checkPermission |-> answers,
           grants |-> AllGrants] : answers \in {"fails", "throws", "truthy"}}

\* the store statements that fail during a call: none, or for the request
\* that is granted the permission the one statement named
Failures(ctx, permission, statement) ==
    IF ctx.grants = {<<"t1", permission>>} THEN {{}, {statement}} ELSE {{}}

GroupParams ==
    [groupName : {"VIP", "W"}, groupCode : {"VIP"},
     requiresApproval : {FALSE}, priceVisibility : {"visible"},
     priorityLevel : {5}]

GuardMemberships ==
    {Membership("m1", "t1", "u1", "g1", "active", 0),
     Membership("m2", "t2", "u1", "g3", "active", 0)}

InitGuard ==
    /\ TaxIdle
    /\ tables = [NoTables EXCEPT !.b2b_user_groups = MembershipGroups,
                                 !.b2b_group_memberships = GuardMemberships]
    /\ uuid = 0
    /\ answer = NoAnswer
    /\ calls = <<>>

CreateB2BGroup ==
    \E params \in GroupParams, ctx \in GuardContexts("b2b.groups.create") :
      \E F \in Failures(ctx, "b2b.groups.create", "insert") :
        /\ uuid < MaxDraws
        /\ \E out \in {createB2BGroup(params, ctx, tables, uuid + 1, F)} :
              B2BCall("createB2BGroup", params, ctx, F, out)

AssignUser1 ==
    \E params \in [userId : {"u1"}, groupId : {"g2"}, tenantId : {"null"}],
       ctx \in GuardContexts("b2b.memberships.create") :
        /\ uuid < MaxDraws
        /\ \E out \in {assignUserToB2BGroup(params, ctx, tables, uuid + 1, {})} :
              B2BCall("assignUserToB2BGroup", params, ctx, {}, out)

RemoveUser1 ==
    \E params \in [userId : {"u1"}, groupId : {"g1", "g3"},
                   tenantId : {"null", "t2"}],
       ctx \in GuardContexts("b2b.memberships.delete") :
        \E out \in {removeUserFromB2BGroup(params, ctx, tables, {})} :
            B2BCall("removeUserFromB2BGroup", params, ctx, {}, out)

ListB2BGroups ==
    \E ctx \in GuardContexts("b2b.groups.view") :
      \E F \in Failures(ctx, "b2b.groups.view", "list") :
        \E out \in {listB2BGroups(ctx, tables, F)} :
            B2BCall("listB2BGroups", <<>>, ctx, F, out)

GetB2BGroupMembers ==
    \E params \in [groupId : {"g1"}], ctx \in GuardContexts("b2b.memberships.view") :
      \E F \in Failures(ctx, "b2b.memberships.view", "members") :
        \E out \in {getB2BGroupMembers(params, ctx, tables, F)} :
            B2BCall("getB2BGroupMembers", params, ctx, F, out)

UpdatePriceVisibilitySettings ==
    \E params \in [hideFromGuests : {TRUE}], ctx \in GuardContexts("b2b.settings.update") :
      \E F \in Failures(ctx, "b2b.settings.update", "settings") :
        \E out \in {updatePriceVisibilitySettings(params, ctx, tables, F)} :
            B2BCall("updatePriceVisibilitySettings", params, ctx, F, out)

GetPriceVisibilitySettings ==
    \E ctx \in GuardContexts("b2b.settings.view") :
      \E F \in Failures(ctx, "b2b.settings.view", "settings") :
        \E out \in {getPriceVisibilitySettings(ctx, tables, F)} :
            B2BCall("getPriceVisibilitySettings", <<>>, ctx, F, out)

GenerateAccessReport ==
    \E ctx \in GuardContexts("b2b.reports.view") :
      \E F \in Failures(ctx, "b2b.reports.view", "report") :
        \E out \in {generateAccessReport(ctx, tables, F)} :
            B2BCall("generateAccessReport", <<>>, ctx, F, out)

NextGuard ==
    \/ CreateB2BGroup
    \/ AssignUser1
    \/ RemoveUser1
    \/ ListB2BGroups
    \/ GetB2BGroupMembers
    \/ UpdatePriceVisibilitySettings
    \/ GetPriceVisibilitySettings
    \/ GenerateAccessReport

SpecGuard == InitGuard /\ [][NextGuard]_vars

----------------------------------------------------------------------------
(* B2BAccessControl: concurrent createB2BGroup calls, one step per await.  *)
(* calls.of[p] is the position of caller p in its call; calls.uniqueIndex  *)
(* tells whether the schema of b2b_user_groups, which is not part of the   *)
(* sources, rejects a second row with the name or the code of a tenant.    *)

IdleCreate == [pc |-> "idle"]

ConcurrentGroupParams ==
    [groupName : {"VIP", "GOLD"}, groupCode : {"VIP", "GOLD"},
     requiresApproval : {FALSE}, priceVisibility : {"visible"},
     priorityLevel : {5}]

InitCreate ==
    /\ TaxIdle
    /\ tables = NoTables
    /\ uuid = 0
    /\ answer = NoAnswer
    /\ \E uniqueIndex \in BOOLEAN :
          calls = [uniqueIndex |-> uniqueIndex,
                   of |-> [p \in Callers |-> IdleCreate]]

\* caller p is at position pc and moves on with the record next
CreateStep(p, pc, next) ==
    /\ calls.of[p].pc = pc
    /\ calls' = [calls EXCEPT !.of[p] = next]

\* the call returns result to caller p
ReturnCreate(p, result) ==
    /\ calls' = [calls EXCEPT !.of[p] =
                    [pc |-> "done", params |-> calls.of[p].params,
                     result |-> result]]
    /\ answer' = [op |-> "createB2BGroup", params |-> calls.of[p].params,
                  ctx |-> Administrator, failed |-> {}, result |-> result,
                  io |-> GroupIo("t1")]

\* the administrator calls createB2BGroup(params): tenant, user and permission
\* are obtained and the parameters parsed
BeginCreate(p) ==
    \E params \in ConcurrentGroupParams :
        /\ Gate(getSecureTenantId(Administrator), Administrator,
                "b2b.groups.create", "Failed to create B2B group",
                "Insufficient permissions to create B2B groups").success
        /\ CreateStep(p, "idle", [pc |-> "existing", params |-> params])
        /\ UNCHANGED <<tables, uuid, answer, taxVars>>

\* await execute_sql(SELECT id FROM b2b_user_groups WHERE tenant_id = $1 AND
\* (group_name = $2 OR group_code = $3))
AwaitExistingCheck(p) ==
    /\ calls.of[p].pc = "existing"
    /\ IF ExistingGroups(tables, "t1", calls.of[p].params) # {}
       THEN ReturnCreate(p, Failure("Group name or code already exists"))
       ELSE /\ calls' = [calls EXCEPT !.of[p].pc = "insert"]
            /\ UNCHANGED answer
    /\ UNCHANGED <<tables, uuid, taxVars>>

\* const groupId = crypto.randomUUID(); await execute_sql(INSERT INTO
\* b2b_user_groups ...): with a unique index a conflicting row is rejected and
\* the catch block answers
AwaitInsert(p) ==
    /\ calls.of[p].pc = "insert"
    /\ uuid' = uuid + 1
    /\ IF calls.uniqueIndex /\ ExistingGroups(tables, "t1", calls.of[p].params) # {}
       THEN /\ ReturnCreate(p, CreateB2BGroupFailed)
            /\ UNCHANGED tables
       ELSE /\ tables' = [tables EXCEPT !.b2b_user_groups =
                             @ \cup {NewGroup(randomUUID(uuid + 1), "t1",
                                              calls.of[p].params)}]
            /\ calls' = [calls EXCEPT !.of[p] =
                            [pc |-> "created", params |-> @.params,
                             groupId |-> randomUUID(uuid + 1)]]
            /\ UNCHANGED answer
    /\ UNCHANGED taxVars

\* await execute_sql(SELECT * FROM b2b_user_groups WHERE id = $1 AND
\* tenant_id = $2) and the return of the created group
AwaitCreatedGroup(p) ==
    /\ calls.of[p].pc = "created"
    /\ IF GroupsById(tables, "t1", calls.of[p].groupId) = {}
       THEN ReturnCreate(p, CreateB2BGroupFailed)
       ELSE ReturnCreate(p, [success |-> TRUE, groupId |-> calls.of[p].groupId])
    /\ UNCHANGED <<tables, uuid, taxVars>>

CreateB2BGroupStep ==
    \E p \in Callers :
        \/ BeginCreate(p)
        \/ AwaitExistingCheck(p)
        \/ AwaitInsert(p)
        \/ AwaitCreatedGroup(p)

NextCreate == CreateB2BGroupStep

SpecCreate == InitCreate /\ [][NextCreate]_vars

----------------------------------------------------------------------------
(* Claims about getRegionRates *)

RegionCall == last.op = "getRegionRates" /\ request.tenantId # ""

RequestKey == regionCacheKey(request.region, request.tenantId)

ExactRows == RegionRows(store, request.tenantId, ToUpperCase(request.region))

DefaultRows == RegionDefaultRows(store, request.tenantId)

IssuedQuery(io) == \E i \in 1..Len(io) : io[i] = "execute_sql"

\* C1: for a non-empty tenantId, whatever the cache and the store hold and
\* whichever step fails, getRegionRates returns (it does not throw) a result
\* whose taxMultiplier is a finite number
C1_RegionRatesAlwaysDefined ==
    RegionCall => ~last.threw /\ IsNumber(last.value.taxMultiplier)

\* a call whose default query failed after a cache miss and an empty
\* exact-match result
C1_Witness ==
    /\ RegionCall
    /\ last.failed = {"region.default"}
    /\ ~last.threw
    /\ last.value.taxMultiplier = One

\* C2: with no failing step, the result comes from the first source that has
\* a hit, in the order cache entry, exact-match active row, active default
\* row, constant 1.0, with the source named after it; a cache hit issues no
\* store query
C2_RegionPrecedence ==
    (RegionCall /\ last.failed = {}) =>
        /\ ~last.threw
        /\ IF Cached(last.before, RequestKey)
           THEN /\ last.value.source = "database_cached"
                /\ last.value.taxMultiplier = last.before[RequestKey].taxMultiplier
                /\ ~IssuedQuery(last.io)
           ELSE IF ExactRows # {}
           THEN /\ last.value.source = "database"
                /\ \E r \in ExactRows : last.value.taxMultiplier = r.tax_multiplier
           ELSE IF DefaultRows # {}
           THEN /\ last.value.source = "database_default"
                /\ \E r \in DefaultRows : last.value.taxMultiplier = r.tax_multiplier
           ELSE /\ last.value.source = "emergency_fallback"
                /\ last.value.taxMultiplier = One

\* a cache hit on an entry that the exact-match row no longer equals: the
\* cached multiplier is returned, not the row's
C2_Witness ==
    /\ RegionCall
    /\ last.failed = {}
    /\ Cached(last.before, RequestKey)
    /\ last.value.source = "database_cached"
    /\ ExactRows # {}
    /\ \A r \in ExactRows : r.tax_multiplier # last.value.taxMultiplier

\* C3: when a step of getRegionRates fails, the call returns multiplier 1.0
\* with source error_fallback and does not throw
C3_RegionErrorFallback ==
    (RegionCall /\ last.failed # {}) =>
        /\ ~last.threw
        /\ last.value.taxMultiplier = One
        /\ last.value.source = "error_fallback"

\* the cache write failed after the exact-match query found a row
C3_Witness ==
    /\ RegionCall
    /\ last.failed = {"region.setex"}
    /\ ExactRows # {}
    /\ last.value.source = "error_fallback"

\* two getRegionRates calls in a row, neither with a failing step, and no
\* expiry or store update between them
ConsecutiveRegionCalls ==
    /\ RegionCall
    /\ last'.op = "getRegionRates"
    /\ last'.seq # last.seq
    /\ last.failed = {} /\ last'.failed = {}

\* C4 as claimed: the second of two calls in a row returns the multiplier of
\* the first and is answered from the cache, whatever the store holds
C4_SecondCallAlwaysCached ==
    [][ConsecutiveRegionCalls =>
          /\ last'.value.taxMultiplier = last.value.taxMultiplier
          /\ last'.value.source = "database_cached"
          /\ ~IssuedQuery(last'.io)]_vars

\* C4 as amended: the second call returns the multiplier of the first; it is
\* answered from the cache, with no store query, exactly when the first call
\* found an exact-match row or a cache entry; after a default row or no row,
\* nothing is cached and the second call queries the store and names the
\* source the first call named
C4_SecondCallCachedAfterExactMatch ==
    [][ConsecutiveRegionCalls =>
          /\ last'.value.taxMultiplier = last.value.taxMultiplier
          /\ IF last.value.source \in {"database", "database_cached"}
             THEN last'.value.source = "database_cached" /\ ~IssuedQuery(last'.io)
             ELSE last'.value.source = last.value.source /\ IssuedQuery(last'.io)]_vars

\* the second of two calls in a row for a region with an exact-match row,
\* answered from the entry the first call wrote
C4_Witness ==
    /\ RegionCall
    /\ last.seq = 0
    /\ last.failed = {}
    /\ last.value.source = "database_cached"
    /\ ExactRows # {}
    /\ last.io = <<"redis.get">>

----------------------------------------------------------------------------
(* Claims about calculate *)

CalculateCall == last.op = "calculate"

\* the conditions under which the specification has calculate reject its input
InvalidInput ==
    \/ RLt(request.amount, Zero)
    \/ RLt(request.taxRate, Zero)
    \/ RGt(request.taxRate, One)
    \/ request.tenantId = ""

\* a step failed in each of the three lookups of the call
EveryLookupFailed ==
    /\ last.failed \cap RegionSteps # {}
    /\ last.failed \cap FeeSteps # {}
    /\ last.failed \cap ItemSteps # {}

\* C5 as claimed: a calculate call in which every configuration lookup failed
\* returns a result flagged fallback_hardcoded, with tax = round2(amount *
\* taxRate), regionTax 0 and no item-type adjustment
C5_TotalFailureUsesEmergencyFallback ==
    (CalculateCall /\ ~InvalidInput /\ EveryLookupFailed) =>
        /\ ~last.threw
        /\ last.value.configurationSource = "fallback_hardcoded"
        /\ last.value.tax = ToFixed2(RMul(request.amount, request.taxRate))
        /\ last.value.breakdown.regionTax = Zero

\* C6: a calculate call whose input passes the validation returns a result,
\* whichever cache and store operations fail in it
C6_CalculateNeverFails ==
    (CalculateCall /\ ~InvalidInput) =>
        /\ ~last.threw
        /\ IsNumber(last.value.tax)
        /\ IsNumber(last.value.fees)
        /\ IsNumber(last.value.total)

\* a call in which every cache read, cache write and store query failed
C6_Witness ==
    /\ CalculateCall
    /\ ~InvalidInput
    /\ EveryLookupFailed
    /\ ~last.threw

\* C7 as claimed: calculate(1000, 0.075, "NG", "product") for a tenant with
\* no stored configuration and an empty cache returns tax 75 and total 1075
C7_ExampleTotal ==
    (/\ CalculateCall
     /\ request = [amount |-> Rat(1000, 1), taxRate |-> Rat(75, 1000),
                   region |-> "NG", itemType |-> "product", tenantId |-> "t2"]
     /\ last.before = <<>>
     /\ last.failed = {}) =>
        /\ ~last.threw
        /\ last.value.tax = Rat(75, 1)
        /\ last.value.total = Rat(1075, 1)

ExactSum(result) == RAdd(RAdd(result.subtotal, result.tax), result.fees)

\* the number has at most 2 decimal places
HasTwoDecimals(x) == (100 * x.n) % x.d = 0

\* C8 as claimed: for every valid input the returned total is exactly
\* subtotal + tax + fees
C8_TotalIsExactSum ==
    (CalculateCall /\ ~InvalidInput) =>
        ~last.threw /\ last.value.total = ExactSum(last.value)

\* C8 as amended: the returned total is subtotal + tax + fees rounded to 2
\* decimals, on the normal path and in calculateWithEmergencyFallback; it is
\* the exact sum when the amount has at most 2 decimal places
C8_TotalIsRoundedSum ==
    (CalculateCall /\ ~InvalidInput) =>
        LET fallback == calculateWithEmergencyFallback(request)
        IN  /\ ~last.threw
            /\ last.value.total = ToFixed2(ExactSum(last.value))
            /\ fallback.total = ToFixed2(ExactSum(fallback))
            /\ HasTwoDecimals(request.amount) =>
                  /\ last.value.total = ExactSum(last.value)
                  /\ fallback.total = ExactSum(fallback)

\* a call with an amount of 3 decimal places whose total is not the exact sum
C8_Witness ==
    /\ CalculateCall
    /\ ~InvalidInput
    /\ ~HasTwoDecimals(request.amount)
    /\ ~last.threw
    /\ last.value.total # ExactSum(last.value)

\* the tenant's active tiers in ascending order of lower bound
RECURSIVE OrderByLowerBound(_)
OrderByLowerBound(rows) ==
    IF rows = {} THEN <<>>
    ELSE LET r == CHOOSE x \in rows :
                      \A y \in rows : ~RLt(y.min_amount, x.min_amount)
         IN  <<r>> \o OrderByLowerBound(rows \ {r})

\* minAmount <= amount < maxAmount, no upper bound meaning unbounded
RowContains(row, amount) ==
    /\ RGe(amount, row.min_amount)
    /\ row.max_amount = Null \/ RLt(amount, row.max_amount)

\* amount * feePercentage when the tier defines a percentage, else feeAmount
ClaimedTierFee(row, amount) ==
    IF row.fee_percentage # Null THEN RMul(amount, row.fee_percentage)
    ELSE row.fee_amount

\* C9 as claimed: when no step of the fee lookup fails and a tier of the
\* tenant contains the amount, the fee is that of the first such tier in
\* ascending order of lower bound: amount * feePercentage if the tier defines
\* a percentage (0 included), its feeAmount otherwise
C9_FeeFromFirstContainingTier ==
    LET tiers == OrderByLowerBound(FeeRows(store, request.tenantId))
        hits == {i \in 1..Len(tiers) : RowContains(tiers[i], request.amount)}
    IN  (/\ CalculateCall
         /\ ~InvalidInput
         /\ last.failed \cap FeeSteps = {}
         /\ hits # {}) =>
            /\ ~last.threw
            /\ last.value.fees =
                  ToFixed2(ClaimedTierFee(tiers[CHOOSE i \in hits : \A j \in hits : i <= j],
                                          request.amount))

\* C10: calculate throws on amount < 0, taxRate < 0, taxRate > 1 or an empty
\* tenantId, having read and written no cache entry and queried no store
C10_InvalidInputRejected ==
    (CalculateCall /\ InvalidInput) =>
        /\ last.threw
        /\ last.io = <<>>
        /\ cache = last.before

\* a call rejected for its empty tenantId alone
C10_Witness ==
    /\ CalculateCall
    /\ request.tenantId = ""
    /\ RGe(request.amount, Zero)
    /\ RGe(request.taxRate, Zero) /\ ~RGt(request.taxRate, One)
    /\ last.threw

----------------------------------------------------------------------------
(* Claims about the dispatch route *)

PostCall == last.op = "POST"

\* the request reached the bus: the path is well formed and the body parses
Dispatched ==
    /\ PostCall
    /\ Len(last.cellPath) >= 4 /\ last.cellPath[3] = "actions"
    /\ last.body = "json"

DestinationRegistered ==
    /\ (last.cellPath[1] \o "/" \o last.cellPath[2]) \in RegisteredCells
    /\ last.cellPath[4] \in RegisteredActions

\* the handler was found and failed on the request's payload
HandlerFailed ==
    /\ Dispatched /\ DestinationRegistered
    /\ TaxAndFeeHandler(last.cellPath[4], request, last.before, store, last.failed).threw

\* the class of outcome a response signals to the caller
ResponseClass(response) ==
    IF response.status < 400 THEN "Result"
    ELSE IF response.status = 404 THEN "NotFound"
    ELSE IF response.status = 403 THEN "PermissionDenied"
    ELSE IF response.status < 500 THEN "ValidationError"
    ELSE "InvocationError"

\* C11: a POST for a destination with no registered handler is answered (the
\* route does not fail) with a NotFound-class response, which differs in class
\* from the response to a handler that was found and failed
C11_UnregisteredIsNotFound ==
    (Dispatched /\ ~DestinationRegistered) =>
        /\ ~last.threw
        /\ ResponseClass(last.response) = "NotFound"
        /\ ResponseClass(last.response) # ResponseClass(ErrorResponse(Error("InvocationError", "")))

\* C12: every POST is answered with one response and no failure escapes the
\* route; when the payload does not parse or the handler fails the response is
\* an error response that carries the message of that failure
C12_FailureCaughtAndReported ==
    PostCall =>
        /\ ~last.threw
        /\ last.response.status \in {200, 400, 500}
        /\ (Len(last.cellPath) >= 4 /\ last.cellPath[3] = "actions" /\ last.body = "malformed") =>
              /\ last.response.status >= 400
              /\ last.response.body.message = "Unexpected token in JSON"
        /\ HandlerFailed =>
              /\ last.response.status >= 400
              /\ last.response.body.message = ThrownMessage(last.cellPath[4], request)
              /\ last.response.body.message # ""

C12_Witness ==
    /\ HandlerFailed
    /\ last.cellPath[4] = "calculate"
    /\ request.tenantId # ""
    /\ last.response.body.message = "Amount must be non-negative"

\* C13: a calculate or getRegionRates request whose payload has no tenantId,
\* and any request on which the handler raises a validation failure, is
\* answered with a 4xx response (400), not a 5xx one
C13_ValidationFailureIs4xx ==
    HandlerFailed =>
        /\ last.response.status >= 400
        /\ last.response.status < 500

----------------------------------------------------------------------------
(* Claims about concurrent getRegionRates calls *)

\* the multiplier of the current exact-match row of the request's region
CurrentRowMultiplier == FirstRow(ExactRows).tax_multiplier

\* C14: whatever the interleaving of the concurrent calls and of an update of
\* the source row, all writes to the cache key carry the same value, and the
\* entry the last writer leaves is the value of the current source row
C14_AllWritersSameValue ==
    /\ \A i, j \in 1..Len(run.written) : run.written[i].value = run.written[j].value
    /\ (Len(run.written) > 0 /\ Cached(cache, RequestKey)) =>
            cache[RequestKey].taxMultiplier = CurrentRowMultiplier

\* C14 as amended: with no update of the source row since the calls began
C14_SameValueWithoutUpdate ==
    ~run.updated =>
        /\ \A i, j \in 1..Len(run.written) : run.written[i].value = run.written[j].value
        /\ (Len(run.written) > 0 /\ Cached(cache, RequestKey)) =>
                cache[RequestKey].taxMultiplier = CurrentRowMultiplier

\* two callers both missed the cache and both wrote the key
C14_Witness ==
    /\ ~run.updated
    /\ Len(run.written) >= 2
    /\ run.written[1].by # run.written[2].by
    /\ run.written[2].populated
    /\ Cached(cache, RequestKey)

----------------------------------------------------------------------------
(* Claims about cache staleness *)

\* the step is a calculate call
CalculateStep == last'.op = "calculate" /\ last'.seq # last.seq

\* the step is a cache write of the getRegionRates call in flight
InFlightWrite == Len(run'.written) > Len(run.written)

\* the three cache keys of the request
FeeKey == feeTiersKey(request.tenantId)
ItemKey == itemCacheKey(request.itemType, request.tenantId)

\* a store with no rows
EmptyStore ==
    [tax_region_multipliers |-> {}, fee_structure_tiers |-> {},
     item_type_tax_adjustments |-> {}]

\* C15: no step of the cell writes a cache key that is populated or changes
\* its value (entries go only by expiry), so a change of a store row is not
\* reflected in a result while the entry is there
C15_NoRefreshBeforeExpiry ==
    [][/\ \A key \in DOMAIN cache \cap DOMAIN cache' : cache'[key] = cache[key]
       /\ InFlightWrite => ~run'.written[Len(run'.written)].populated]_vars

\* C15 as amended: a call that reads a populated entry answers from it
\* whatever the store rows are now, and neither writes nor removes it; entries
\* are removed by expiry only
C15_NoRefreshByLaterCalls ==
    [][/\ CalculateStep =>
            /\ \A key \in DOMAIN cache : key \in DOMAIN cache' /\ cache'[key] = cache[key]
            /\ ({RequestKey, FeeKey, ItemKey} \subseteq DOMAIN cache) =>
                    last'.value = calculate(request, cache, EmptyStore, {}).value
       /\ (run.pc[1] = "redis.get" /\ run' # run /\ Cached(cache, RequestKey)) =>
            /\ cache' = cache
            /\ run'.pc[1] \in {"redis.get", "done"}
            /\ (run'.pc[1] = "done" /\ run'.result[1].source # "error_fallback") =>
                    /\ run'.result[1].source = "database_cached"
                    /\ run'.result[1].taxMultiplier = cache[RequestKey].taxMultiplier
       /\ \A key \in DOMAIN cache \ DOMAIN cache' :
            /\ run' = run
            /\ cache' = RedisExpire(cache, key)]_vars

\* rows of the three tables changed after the entries were populated and a
\* calculate call still returns what the entries give, which is not what the
\* rows give now
C15_Witness ==
    /\ CalculateCall
    /\ run.updated
    /\ {RequestKey, FeeKey, ItemKey} \subseteq DOMAIN last.before
    /\ last.value # calculate(request, <<>>, store, {}).value
    /\ last.value.tax # calculate(request, <<>>, store, {}).value.tax

----------------------------------------------------------------------------
(* Claims about the cache keys *)

\* the multipliers the rows of the request's tenant hold
TenantMultipliers ==
    {row.tax_multiplier : row \in {r \in store.tax_region_multipliers :
                                        r.tenant_id = request.tenantId}}

\* C16: distinct (tenantId, region) pairs and distinct (tenantId, itemType)
\* pairs have distinct cache keys, also when the texts contain ':', so a
\* lookup answered from the cache returns an entry populated for its own
\* tenant
C16_CacheKeysIsolateTenants ==
    /\ \A key \in DOMAIN cache : \A a, b \in KeyRequests :
            (regionCacheKey(a.region, a.tenantId) = key /\
             regionCacheKey(b.region, b.tenantId) = key) => a = b
    /\ (RegionCall /\ ~last.threw /\ last.value.source = "database_cached") =>
            last.value.taxMultiplier \in TenantMultipliers

----------------------------------------------------------------------------
(* Claims about repeated and boundary calculations *)

\* two calculate calls made one after the other, with no failing step, no
\* store change and no expiry between them
ConsecutiveCalculateCalls ==
    /\ last.op = "calculate" /\ last'.op = "calculate"
    /\ last'.seq # last.seq
    /\ ~last.threw /\ ~last'.threw
    /\ last.failed = {} /\ last'.failed = {}

\* C17: the second of two calculate calls with the same input, which reads
\* the cache the first one populated, returns the same result as the first
C17_RepeatedCalculateSameResult ==
    [][ConsecutiveCalculateCalls => last'.value = last.value]_vars

\* C18 as claimed: for a region the tenant has no exact-match row for,
\* getRegionRates returns taxMultiplier 1
C18_UnknownRegionMultiplierOne ==
    (RegionCall /\ ExactRows = {}) => last.value.taxMultiplier = One

\* C18 as amended: with no cache entry and no exact-match row the call
\* returns the multiplier of the tenant's active default row when there is
\* one, and 1 when there is none or a step of the lookup failed
C18_UnknownRegionDefaultOrOne ==
    (RegionCall /\ ExactRows = {} /\ ~Cached(last.before, RequestKey)) =>
        IF last.failed # {}
        THEN last.value.taxMultiplier = One /\ last.value.source = "error_fallback"
        ELSE IF DefaultRows = {}
        THEN last.value.taxMultiplier = One /\ last.value.source = "emergency_fallback"
        ELSE /\ last.value.source = "database_default"
             /\ \E row \in DefaultRows : last.value.taxMultiplier = row.tax_multiplier

\* a tenant with no rows at all asks for a region: the ultimate fallback
C18_Witness ==
    /\ RegionCall
    /\ ExactRows = {} /\ DefaultRows = {}
    /\ last.failed = {}
    /\ last.value.taxMultiplier = One
    /\ last.value.source = "emergency_fallback"

\* C19: calculate with amount 0 and a valid taxRate and tenantId returns tax
\* 0 and total 0, whatever the configuration and the failing steps
C19_ZeroAmountZeroTotal ==
    (CalculateCall /\ ~InvalidInput /\ request.amount = Zero) =>
        /\ ~last.threw
        /\ last.value.tax = Zero
        /\ last.value.total = Zero

\* the multipliers the lookups of the call resolved
ResolvedRegionMultiplier ==
    getRegionTaxMultiplier(request.region, request.tenantId, last.before, store,
                           last.failed).value

ResolvedItemMultiplier ==
    getItemTypeAdjustmentFromDatabase(request.itemType, request.tenantId, last.before,
                                      store, last.failed).value

\* C20: the tax of a calculate call is
\* round2((amount*taxRate + amount*taxRate*(regionMultiplier - 1)) * itemTypeMultiplier)
\* for the multipliers resolved for the call's region and item type
C20_TaxFormula ==
    (CalculateCall /\ ~InvalidInput) =>
        LET base == RMul(request.amount, request.taxRate)
            regional == RMul(base, RSub(ResolvedRegionMultiplier, One))
        IN  /\ ~last.threw
            /\ last.value.tax = ToFixed2(RMul(RAdd(base, regional), ResolvedItemMultiplier))

\* a call with a region multiplier of 1.2 and an item-type multiplier of 0.9,
\* both of which show in the tax: 1000 * 0.075 * 1.2 * 0.9 = 81
C20_Witness ==
    /\ CalculateCall /\ ~InvalidInput
    /\ last.failed = {}
    /\ ResolvedRegionMultiplier = Rat(12, 10)
    /\ ResolvedItemMultiplier = Rat(9, 10)
    /\ request.amount = Rat(1000, 1) /\ request.taxRate = Rat(75, 1000)
    /\ last.value.tax = Rat(81, 1)

TableAdjustment(itemType) ==
    IF itemType \in DOMAIN HardcodedAdjustments THEN HardcodedAdjustments[itemType]
    ELSE One

\* C28: when the item-type lookup of a calculate call fails, the adjustment
\* applied to the tax is the emergency table's value for the item type (0 for
\* 'medical', so the tax is 0) and 1.0 for a type that is not listed
C28_HardcodedAdjustmentApplied ==
    (CalculateCall /\ ~InvalidInput /\ last.failed \cap ItemSteps # {}) =>
        LET base == RMul(request.amount, request.taxRate)
            regional == RMul(base, RSub(ResolvedRegionMultiplier, One))
        IN  /\ ~last.threw
            /\ last.value.tax =
                  ToFixed2(RMul(RAdd(base, regional), TableAdjustment(request.itemType)))

----------------------------------------------------------------------------
(* Claims about category access *)

\* a checkCategoryAccess call that reached checkUserCategoryAccess
CategoryCall ==
    /\ answer.op = "checkCategoryAccess"
    /\ answer.result.success
    /\ answer.result.restrictionReason #
           "Authentication required for category access"

CategoryUser ==
    IF answer.params.userId # "null" THEN answer.params.userId
    ELSE answer.ctx.user

\* the rules that apply to the user of the call: a user rule for that user, a
\* group rule of a group the user is an active member of, or a global rule
RulesOfCall ==
    {car \in tables.b2b_category_access_rules :
        /\ car.tenant_id = answer.ctx.tenantId
        /\ car.category_id = answer.params.categoryId
        /\ \/ car.rule_scope = "user" /\ car.user_id = CategoryUser
           \/ /\ car.rule_scope = "group"
              /\ \E gm \in tables.b2b_group_memberships :
                    /\ gm.tenant_id = car.tenant_id
                    /\ gm.group_id = car.group_id
                    /\ gm.user_id = CategoryUser
                    /\ gm.membership_status = "active"
           \/ car.rule_scope = "global"}

\* the applicable rules no other applicable rule precedes: higher priority
\* first, earlier creation first among equal priorities
HighestPriority(rules) ==
    {car \in rules :
        ~ \E other \in rules :
            \/ other.priority > car.priority
            \/ other.priority = car.priority /\ other.created_at < car.created_at}

\* the result decided by a rule of the given access type
DecidedBy(accessType) ==
    CASE accessType = "allow" ->
            /\ answer.result.hasAccess
            /\ answer.result.restrictionLevel = "none"
      [] accessType = "deny" ->
            /\ ~answer.result.hasAccess
            /\ answer.result.restrictionLevel = "full"
            /\ answer.result.allowedActions = {}
      [] accessType = "request_approval" ->
            /\ answer.result.hasAccess
            /\ answer.result.restrictionLevel = "partial"
            /\ answer.result.requiredApprovals = {"purchase_approval"}

DecidedByHighestPriority ==
    IF RulesOfCall = {}
    THEN answer.result.hasAccess /\ answer.result.restrictionLevel = "none"
    ELSE \E car \in HighestPriority(RulesOfCall) : DecidedBy(car.access_type)

\* C22 as claimed: checkUserCategoryAccess always decides from the
\* highest-priority applicable rule (allow, deny or request_approval, ties to
\* the earliest rule) and allows access when no rule applies
C22_DecidedFromHighestPriorityRule ==
    CategoryCall => DecidedByHighestPriority

\* C22: when the rule query succeeds checkUserCategoryAccess decides from the
\* highest-priority applicable rule (ties to the earliest rule) and allows
\* access when no rule applies; when the rule query fails it denies access
\* with restriction 'full' whatever the rules are
C22_DecidedFromRuleUnlessQueryFails ==
    CategoryCall =>
        IF "rules" \in answer.failed
        THEN /\ ~answer.result.hasAccess
             /\ answer.result.restrictionLevel = "full"
             /\ answer.result.allowedActions = {}
        ELSE DecidedByHighestPriority

\* a call decided by a request_approval rule of priority 2 while a deny rule
\* of priority 1 applies too
C22_Witness ==
    /\ CategoryCall
    /\ answer.failed = {}
    /\ \E high, low \in RulesOfCall :
          /\ high.priority = 2 /\ high.access_type = "request_approval"
          /\ low.priority = 1 /\ low.access_type = "deny"
    /\ answer.result.hasAccess
    /\ answer.result.restrictionLevel = "partial"

----------------------------------------------------------------------------
(* Claims about price access *)

\* a checkGuestPriceAccess call for a category that was answered
PriceCall ==
    /\ answer.op = "checkGuestPriceAccess"
    /\ answer.params.categoryId # "null"
    /\ answer.result.success

\* the highest-priority rule applicable to the caller is a deny rule of global
\* scope
GlobalDenyFirst ==
    /\ RulesOfCall # {}
    /\ \A car \in HighestPriority(RulesOfCall) :
          car.rule_scope = "global" /\ car.access_type = "deny"

\* the answers the price check gives the logged-in user in the current tables
UserAnswers(categoryId) ==
    checkGuestPriceAccess([categoryId |-> categoryId, userId |-> "null"],
                          Context("t1", "u1"), tables, {})

\* C27 as claimed: when the highest-priority applicable rule of the category
\* is a global deny rule, checkGuestPriceAccess answers canViewPrice false to
\* every caller, and a guest is never shown the price of a category that a
\* logged-in user without memberships is not shown
C27_GlobalDenyHidesPriceFromAll ==
    /\ (PriceCall /\ GlobalDenyFirst) => ~answer.result.canViewPrice
    /\ (/\ PriceCall
        /\ answer.ctx.user = "null"
        /\ answer.result.canViewPrice
        /\ ActiveMemberships(tables, "t1", "u1") = {}) =>
          \A user \in UserAnswers(answer.params.categoryId) :
              user.result.canViewPrice

----------------------------------------------------------------------------
(* Claims about assignments and removals *)

\* the step is a call of the operation by the administrator in which no store
\* statement fails
AdministratorCalls(op) ==
    /\ answer'.op = op
    /\ answer'.ctx = Administrator
    /\ answer'.failed = {}

\* the membership rows the call of the step is about, before and after it
MembershipBefore ==
    MembershipsOf(tables, "t1", answer'.params.userId, answer'.params.groupId)

MembershipAfter ==
    MembershipsOf(tables', "t1", answer'.params.userId, answer'.params.groupId)

Revoked(rows) == \A gm \in rows : gm.membership_status = "revoked"

\* C25 as claimed: removeUserFromB2BGroup keeps the row and sets it to
\* 'revoked', and fails with 'Membership not found or already revoked' when
\* the membership does not exist or is already revoked, so that the second of
\* two removals fails
C25_RemoveRevokesOnce ==
    [][AdministratorCalls("removeUserFromB2BGroup") =>
          IF Revoked(MembershipBefore)
          THEN /\ answer'.result =
                      Failure("Membership not found or already revoked")
               /\ tables' = tables
          ELSE /\ answer'.result.success
               /\ MembershipAfter # {} /\ Revoked(MembershipAfter)
               /\ {gm.id : gm \in MembershipAfter} =
                      {gm.id : gm \in MembershipBefore}]_vars

\* C26: there is at most one membership per (tenant, user, group); a
\* successful assign leaves it 'pending' when the group requires approval and
\* 'active' otherwise; an assign for an active membership is rejected and
\* changes nothing; an assign for a pending or revoked membership is carried
\* out and overwrites the status of the one row
C26_OneMembershipAssignedOnce ==
    [][/\ \A gm, other \in tables'.b2b_group_memberships :
              (/\ gm.tenant_id = other.tenant_id
               /\ gm.user_id = other.user_id
               /\ gm.group_id = other.group_id) => gm = other
       /\ (answer'.op = "assignUserToB2BGroup" /\ answer'.result.success) =>
              /\ Cardinality(MembershipAfter) = 1
              /\ \A gm \in MembershipAfter, g \in tables.b2b_user_groups :
                    g.id = gm.group_id =>
                        gm.membership_status =
                            IF g.requires_approval THEN "pending" ELSE "active"
       /\ (/\ answer'.op = "assignUserToB2BGroup"
           /\ \E gm \in MembershipBefore : gm.membership_status = "active") =>
              /\ ~answer'.result.success
              /\ tables' = tables
       /\ (/\ AdministratorCalls("assignUserToB2BGroup")
           /\ \E gm \in MembershipBefore : gm.membership_status # "active") =>
              /\ answer'.result.success
              /\ {gm.id : gm \in MembershipAfter} =
                     {gm.id : gm \in MembershipBefore}]_vars

\* an assign that succeeded for a membership created by an earlier call and
\* revoked since: the row is active again
C26_Witness ==
    /\ answer.op = "assignUserToB2BGroup"
    /\ answer.result.success
    /\ \E gm \in MembershipsOf(tables, "t1", answer.params.userId,
                               answer.params.groupId) :
          /\ gm.created_at < uuid
          /\ gm.membership_status = "active"

\* C30 as claimed: the membershipId a successful assignUserToB2BGroup returns
\* is the id of the row stored for the (tenant, user, group), for a new
\* membership and for a re-activated one
C30_ReturnedIdIsStoredId ==
    (answer.op = "assignUserToB2BGroup" /\ answer.result.success) =>
        \E gm \in MembershipsOf(tables, "t1", answer.params.userId,
                                answer.params.groupId) :
            gm.id = answer.result.membershipId

----------------------------------------------------------------------------
(* Claims about the guarded operations *)

\* the permission each guarded operation asks for
OwnPermission ==
    [createB2BGroup |-> "b2b.groups.create",
     assignUserToB2BGroup |-> "b2b.memberships.create",
     removeUserFromB2BGroup |-> "b2b.memberships.delete",
     listB2BGroups |-> "b2b.groups.view",
     getB2BGroupMembers |-> "b2b.memberships.view",
     updatePriceVisibilitySettings |-> "b2b.settings.update",
     getPriceVisibilitySettings |-> "b2b.settings.view",
     generateAccessReport |-> "b2b.reports.view"]

\* the step is a call of one of the guarded operations
GuardedCall == answer'.op \in DOMAIN OwnPermission

\* the permission check of the call can be answered with hasPermission true
\* for the permission of the operation
PermissionGiven ==
    /\ answer'.ctx.checkPermission = "answers"
    /\ \E tenantId \in {"t1", "t2"} :
          <<tenantId, OwnPermission[answer'.op]>> \in answer'.ctx.grants

\* C23 as claimed: a guarded operation whose tenant cannot be obtained, whose
\* request has no user or whose permission check is not answered with
\* hasPermission true fails without reading or writing the store, and the
\* store is accessed only after a positive answer for the operation's own
\* permission
C23_NoStoreAccessWithoutPermission ==
    [][GuardedCall =>
          /\ (\/ answer'.ctx.tenantId = "null"
              \/ answer'.ctx.user = "null"
              \/ ~PermissionGiven) =>
                 /\ ~answer'.result.success
                 /\ answer'.io = {}
                 /\ tables' = tables
          /\ answer'.io # {} => PermissionGiven]_vars

\* the rows of the tables that belong to other tenants than the given one
RowsOfOthers(T, tenantId) ==
    [table \in DOMAIN T |-> {row \in T[table] : row.tenant_id # tenantId}]

\* C24 as claimed: every statement of an operation on the cell's tables is
\* bound to the tenant the authentication service gives for the request, and
\* no call reads or changes a row of another tenant, whatever its parameters
C24_ScopedToAuthenticatedTenant ==
    [][answer'.op # "none" =>
          /\ \A statement \in answer'.io :
                statement.table # "users" =>
                    statement.tenant_id = answer'.ctx.tenantId
          /\ RowsOfOthers(tables', answer'.ctx.tenantId) =
                 RowsOfOthers(tables, answer'.ctx.tenantId)]_vars

----------------------------------------------------------------------------
(* Claims about concurrent group creation *)

\* two calls conflict when they give the same name or the same code
Conflicting(p, q) ==
    \/ calls.of[p].params.groupName = calls.of[q].params.groupName
    \/ calls.of[p].params.groupCode = calls.of[q].params.groupCode

\* C29 as claimed: whatever the interleaving of createB2BGroup calls, no two
\* stored groups of a tenant share a name or a code, and of two conflicting
\* calls at most one inserts a row while the other returns 'Group name or
\* code already exists'
C29_GroupNamesAndCodesUnique ==
    /\ \A g, h \in tables.b2b_user_groups :
          (g.tenant_id = h.tenant_id /\ g # h) =>
              /\ g.group_name # h.group_name
              /\ g.group_code # h.group_code
    /\ \A p, q \in Callers :
          (/\ p # q
           /\ calls.of[p].pc = "done" /\ calls.of[q].pc = "done"
           /\ Conflicting(p, q)
           /\ calls.of[p].result.success) =>
              calls.of[q].result = Failure("Group name or code already exists")

====
